---------------------------- MODULE Spec2Model ----------------------------
(***************************************************************************)
(* Alert lifecycle engine of alerta (gapitio fork): the ISA 18.2 alarm     *)
(* state machine, the identity lookup (duplicate / correlate / create) of  *)
(* the Postgres backend, the bounded history of an alert, the selection    *)
(* of notification and escalation rules, and the notification_rule plugin  *)
(* with its delayed notifications.                                         *)
(***************************************************************************)
EXTENDS Integers, Sequences, FiniteSets, TLC

VARIABLES
    alerts,     \* the rows of table "alerts" (a set of records, one per row)
    nextId,     \* the id the next inserted row gets (ids are unique)
    resp,       \* the response of the last handler that ran
    budget,     \* the number of requests this behaviour may still handle
    sm,         \* SpecSM: the arguments of one call of StateMachine.transition
    smOut,      \* SpecSM: what that call returned or raised
    pc,         \* SpecConc: each ingest request's position in process_alert
    seen,       \* SpecConc: what each ingest request has read so far
    call,       \* the arguments of the last call: a query, trend, a hook, a view
    ret,        \* what that call returned or selected
    rules,      \* the rows of table "notification_rules"
    escalation_rules,   \* the rows of table "escalation_rules"
    delayed,    \* the rows of table "delayed_notifications"
    handed,     \* what the last handler handed to the notification thread
    now,        \* the wall clock
    blackouts,  \* the rows of table "blackouts"
    config,     \* current_app.config
    notification_history,   \* the rows of table "notification_history"
    sends,      \* the calls of a transport the notification thread has made
    notification_channels,  \* the rows of table "notification_channels"
    tokens      \* the calls of mylink_bearer_request, with how each ended

\* what no request of the alert and notification API writes
idle == <<escalation_rules, blackouts, config, notification_history, sends,
          notification_channels, tokens>>

\* the state of the notification_rule plugin and of the calls of SpecSel
notif == <<call, ret, rules, idle, delayed, handed, now>>

vars == <<alerts, nextId, resp, budget, sm, smOut, pc, seen, notif>>

None == "None"

\* NULL in a column of times or of intervals, which are numbers here
NULL == -1

(***************************************************************************)
(* models/enums.py                                                         *)
(***************************************************************************)
Severity ==
    {"security", "critical", "major", "minor", "warning", "indeterminate",
     "informational", "normal", "ok", "cleared", "debug", "trace", "unknown"}

Closed == "closed"
Open == "open"
Ack == "ack"
Unack == "unack"
Shelved == "shelved"

(***************************************************************************)
(* models/alarms/alerta_isa_18_2.py                                        *)
(***************************************************************************)
SEVERITY_MAP ==
    [s \in Severity |->
        CASE s = "security" -> 10
          [] s = "critical" -> 9
          [] s = "major" -> 8
          [] s = "minor" -> 7
          [] s = "warning" -> 6
          [] s = "indeterminate" -> 5
          [] s = "informational" -> 4
          [] s = "normal" -> 3
          [] s = "ok" -> 3
          [] s = "cleared" -> 3
          [] s = "debug" -> 2
          [] s = "trace" -> 1
          [] s = "unknown" -> 0]

DEFAULT_NORMAL_SEVERITY == "normal"
DEFAULT_PREVIOUS_SEVERITY == "normal"
DEFAULT_STATUS == Closed

F_DSUPR == "DSUPR"
G_OOSRV == "OOSRV"

STATUS_MAP == {Closed, Open, Ack, Unack, Shelved, F_DSUPR, G_OOSRV}

MORE_SEVERE == "moreSevere"
NO_CHANGE == "noChange"
LESS_SEVERE == "lessSevere"

ACTION_ACK == "ack"
ACTION_UNACK == "unack"
ACTION_SHELVE == "shelve"
ACTION_UNSHELVE == "unshelve"
ACTION_OPEN == "open"

\* trend with the first comparison not strict
trend_NonStrict(previous, current) ==
    IF SEVERITY_MAP[previous] <= SEVERITY_MAP[current] THEN MORE_SEVERE
    ELSE IF SEVERITY_MAP[previous] > SEVERITY_MAP[current] THEN LESS_SEVERE
    ELSE NO_CHANGE

trend(previous, current) ==
    IF SEVERITY_MAP[previous] < SEVERITY_MAP[current] THEN MORE_SEVERE
    ELSE IF SEVERITY_MAP[previous] > SEVERITY_MAP[current] THEN LESS_SEVERE
    ELSE NO_CHANGE

\* what next_state(rule, severity, status) returns, and what a raise leaves
next_state(severity, status) ==
    [raised |-> None, severity |-> severity, status |-> status]

InvalidAction == [raised |-> "InvalidAction", severity |-> None, status |-> None]

NoReturn == [raised |-> None, severity |-> None, status |-> None]

\* OperatorShelve with unshelve ignoring the severity
OperatorShelve_UnshelveOpens(action, current_severity) ==
    IF action = ACTION_SHELVE THEN next_state(current_severity, Shelved)
    ELSE IF action = ACTION_UNSHELVE THEN next_state(current_severity, Open)
    ELSE NoReturn

\* lines 131-138: operator shelve and unshelve
OperatorShelve(action, current_severity) ==
    IF action = ACTION_SHELVE THEN next_state(current_severity, Shelved)
    ELSE IF action = ACTION_UNSHELVE
    THEN IF current_severity = DEFAULT_NORMAL_SEVERITY
         THEN next_state(current_severity, Closed)
         ELSE next_state(current_severity, Open)
    ELSE NoReturn

\* OperatorOpen without the refusal of an alert that is already open
OperatorOpen_NoRefusal(state, current_severity) ==
    IF state = Closed THEN next_state(current_severity, Unack)
    ELSE next_state(current_severity, Open)

\* lines 140-146: operator open
OperatorOpen(state, current_severity) ==
    IF state = Open THEN InvalidAction
    ELSE IF state = Closed THEN next_state(current_severity, Unack)
    ELSE next_state(current_severity, Open)

\* OperatorAck with the two targets of ack exchanged
OperatorAck_Exchanged(action, state, current_severity) ==
    IF action = ACTION_ACK /\ state = Open
    THEN next_state(current_severity, Closed)
    ELSE IF action = ACTION_ACK /\ state = Unack
    THEN next_state(current_severity, Ack)
    ELSE IF action = ACTION_UNACK /\ state = Ack
    THEN next_state(current_severity, Open)
    ELSE NoReturn

\* lines 148-156: operator ack and unack; NoReturn when no branch returns
OperatorAck(action, state, current_severity) ==
    IF action = ACTION_ACK /\ state = Open
    THEN next_state(current_severity, Ack)
    ELSE IF action = ACTION_ACK /\ state = Unack
    THEN next_state(current_severity, Closed)
    ELSE IF action = ACTION_UNACK /\ state = Ack
    THEN next_state(current_severity, Open)
    ELSE NoReturn

\* ReAlarm without the test of the previous severity
ReAlarm_NoPreviousTest(previous_severity, current_severity) ==
    trend(previous_severity, current_severity) = MORE_SEVERE

\* lines 169-170: the re-alarm condition of an acknowledged alarm
ReAlarm(previous_severity, current_severity) ==
    /\ trend(previous_severity, current_severity) = MORE_SEVERE
    /\ previous_severity # DEFAULT_PREVIOUS_SEVERITY

\* AlarmOccurs without the rule for Unack
AlarmOccurs_ClosedOnly(state, current_severity) ==
    state = Closed /\ current_severity # DEFAULT_NORMAL_SEVERITY

\* lines 158-164: an alarm occurs in Unack or in Closed
AlarmOccurs(state, current_severity) ==
    \/ state = Unack /\ current_severity # DEFAULT_NORMAL_SEVERITY
    \/ state = Closed /\ current_severity # DEFAULT_NORMAL_SEVERITY

\* lines 158-190: the rules tried when no operator branch has returned
AlarmRules(state, current_severity, previous_severity) ==
    IF AlarmOccurs(state, current_severity)
    THEN next_state(current_severity, Open)
    ELSE IF state = Ack /\ current_severity = DEFAULT_NORMAL_SEVERITY
    THEN next_state(current_severity, Closed)
    ELSE IF state = Ack /\ ReAlarm(previous_severity, current_severity)
    THEN next_state(current_severity, Open)
    ELSE IF state = Open /\ current_severity = DEFAULT_NORMAL_SEVERITY
    THEN next_state(current_severity, Unack)
    ELSE IF state = F_DSUPR
    THEN IF current_severity = DEFAULT_NORMAL_SEVERITY
         THEN next_state(current_severity, Closed)
         ELSE next_state(current_severity, Open)
    ELSE IF state = G_OOSRV
    THEN IF current_severity = DEFAULT_NORMAL_SEVERITY
         THEN next_state(current_severity, Closed)
         ELSE next_state(current_severity, Open)
    ELSE next_state(current_severity, state)

\* transition(alert, current_status, action): alert is read through its
\* status, severity and previous_severity; None stands for Python's None
transition(alert, current_status, action) ==
    LET state == IF current_status = None THEN DEFAULT_STATUS ELSE current_status
        current_severity == alert.severity
        previous_severity ==
            IF alert.previous_severity = None THEN DEFAULT_PREVIOUS_SEVERITY
            ELSE alert.previous_severity
    IN  IF action = None /\ alert.status # DEFAULT_STATUS
        THEN next_state(current_severity, alert.status)
        ELSE IF OperatorShelve(action, current_severity) # NoReturn
        THEN OperatorShelve(action, current_severity)
        ELSE IF action = ACTION_OPEN
        THEN OperatorOpen(state, current_severity)
        ELSE IF OperatorAck(action, state, current_severity) # NoReturn
        THEN OperatorAck(action, state, current_severity)
        ELSE AlarmRules(state, current_severity, previous_severity)

(***************************************************************************)
(* Bounds and input sets of the model                                      *)
(***************************************************************************)
HISTORY_LIMIT == 3      \* app.config['HISTORY_LIMIT']
MaxAlerts == 2          \* rows the table may hold
MaxDuplicates == 1      \* cap of duplicate_count
MaxOps == 4             \* requests handled in one behaviour of Spec
MaxOpsDeep == 5         \* requests handled in one behaviour of SpecDeep
MaxEntries == 2         \* entries of the array the call is about
MaxRules == 2           \* rows the table of notification rules may hold
MaxTime == 2            \* the last reading of the clock
MaxScans == 2           \* requests GET /escalate in a behaviour

Environments == {"Production"}
Resources == {"n1"}
Customers == {None}
Events == {"down", "up"}
IngestSeverities == {"normal", "minor", "major"}
IngestStatuses == {DEFAULT_STATUS}
Correlates == {{}, {"down", "up"}}
Actions == {ACTION_OPEN, ACTION_ACK, ACTION_UNACK, ACTION_SHELVE,
            ACTION_UNSHELVE, "close"}
SetStatuses == {Closed, G_OOSRV}

\* the alerts a client may post (Alert.parse): previous_severity is unset
Incoming ==
    [environment : Environments, resource : Resources, customer : Customers,
     event : Events, severity : IngestSeverities, status : IngestStatuses,
     correlate : Correlates]

(***************************************************************************)
(* database/backends/postgres/base.py: ALERTS                              *)
(***************************************************************************)
\* {customer}: 'customer=%(customer)s' if alert.customer else 'customer IS NULL'
CustomerWhere(r, alert) ==
    IF alert.customer # None THEN r.customer = alert.customer
    ELSE r.customer = None

\* WHERE clause of is_duplicate and of dedup_alert
DuplicateWhere(r, alert) ==
    /\ r.environment = alert.environment
    /\ r.resource = alert.resource
    /\ r.event = alert.event
    /\ r.severity = alert.severity
    /\ CustomerWhere(r, alert)

\* CorrelatedWhere without the test that the severity differs
CorrelatedWhere_AnySeverity(r, alert) ==
    /\ r.environment = alert.environment
    /\ r.resource = alert.resource
    /\ \/ r.event = alert.event
       \/ (r.event # alert.event /\ alert.event \in r.correlate)
    /\ CustomerWhere(r, alert)

\* WHERE clause of is_correlated, get_severity and correlate_alert
CorrelatedWhere(r, alert) ==
    /\ r.environment = alert.environment
    /\ r.resource = alert.resource
    /\ \/ (r.event = alert.event /\ r.severity # alert.severity)
       \/ (r.event # alert.event /\ alert.event \in r.correlate)
    /\ CustomerWhere(r, alert)

\* the rows a query selects from table T; _fetchone returns one of them
\* (the statement has no ORDER BY) or None when there is none
is_duplicate(T, alert) == {r \in T : DuplicateWhere(r, alert)}
is_correlated(T, alert) == {r \in T : CorrelatedWhere(r, alert)}
get_severity(T, alert) == {r.severity : r \in is_correlated(T, alert)}

\* HistoryPush with the operands of || exchanged
HistoryPush_Appended(change, history) ==
    LET all == history \o change
    IN  SubSeq(all, 1, IF Len(all) < HISTORY_LIMIT THEN Len(all) ELSE HISTORY_LIMIT)

\* history=(%(history)s || history)[1:{limit}]; a NULL left operand adds
\* nothing. "change" is a sequence of history records (empty for None).
HistoryPush(change, history) ==
    LET all == change \o history
    IN  SubSeq(all, 1, IF Len(all) < HISTORY_LIMIT THEN Len(all) ELSE HISTORY_LIMIT)

\* the SET list of dedup_alert applied to one row
DedupSet(r, alert, change) ==
    [r EXCEPT !.status = alert.status,
              !.repeat = alert.repeat,
              !.duplicate_count = r.duplicate_count + 1,
              !.history = HistoryPush(change, r.history)]

dedup_alert(T, alert, change) ==
    {IF DuplicateWhere(r, alert) THEN DedupSet(r, alert, change) ELSE r : r \in T}

\* the SET list of correlate_alert applied to one row
CorrelateSet(r, alert, change) ==
    [r EXCEPT !.event = alert.event,
              !.severity = alert.severity,
              !.status = alert.status,
              !.duplicate_count = alert.duplicate_count,
              !.repeat = alert.repeat,
              !.previous_severity = alert.previous_severity,
              !.trend_indication = alert.trend_indication,
              !.history = HistoryPush(change, r.history)]

correlate_alert(T, alert, change) ==
    {IF CorrelatedWhere(r, alert) THEN CorrelateSet(r, alert, change) ELSE r : r \in T}

\* INSERT INTO alerts: the row as stored
create_alert(T, alert) ==
    T \cup {[id |-> alert.id, environment |-> alert.environment,
             resource |-> alert.resource, customer |-> alert.customer,
             event |-> alert.event, severity |-> alert.severity,
             correlate |-> alert.correlate, status |-> alert.status,
             duplicate_count |-> alert.duplicate_count, repeat |-> alert.repeat,
             previous_severity |-> alert.previous_severity,
             trend_indication |-> alert.trend_indication,
             history |-> alert.history]}

\* WHERE id=%(id)s OR id LIKE %(like_id)s (ids are whole uuids here)
IdWhere(r, id) == r.id = id

get_alert(T, id) == {r \in T : IdWhere(r, id)}

set_alert(T, id, severity, status, previous_severity, change) ==
    {IF IdWhere(r, id)
     THEN [r EXCEPT !.severity = severity, !.status = status,
                    !.previous_severity = previous_severity,
                    !.history = HistoryPush(change, r.history)]
     ELSE r : r \in T}

set_status(T, id, status, change) ==
    {IF IdWhere(r, id)
     THEN [r EXCEPT !.status = status,
                    !.history = HistoryPush(change, r.history)]
     ELSE r : r \in T}

add_history(T, id, change) ==
    {IF IdWhere(r, id)
     THEN [r EXCEPT !.history = HistoryPush(change, r.history)]
     ELSE r : r \in T}


(***************************************************************************)
(* models/alert.py and utils/api.py: the handlers built on the queries     *)
(***************************************************************************)
\* a HistoryRecord, by the fields the alert engine reads back
History(change_type, event, severity, status) ==
    [change_type |-> change_type, event |-> event, severity |-> severity,
     status |-> status]

\* Alert.parse: the alert object of an ingest before the lookup
Alert(i, id) ==
    [id |-> id, environment |-> i.environment, resource |-> i.resource,
     customer |-> i.customer, event |-> i.event, severity |-> i.severity,
     correlate |-> i.correlate, status |-> i.status,
     duplicate_count |-> None, repeat |-> None, previous_severity |-> None,
     trend_indication |-> None, history |-> <<>>]

Response(op, code, outcome) == [op |-> op, code |-> code, outcome |-> outcome]

\* Alert.deduplicate: the duplicate is updated in place
Deduplicate(self) ==
    \E duplicate_of \in is_duplicate(alerts, self) :
        LET status == duplicate_of.status
            t == transition(self, status, None)
            change == IF t.status # status
                      THEN <<History("status", self.event, self.severity, t.status)>>
                      ELSE <<>>
            updated == [self EXCEPT !.repeat = TRUE, !.status = t.status]
        IN  /\ \A r \in is_duplicate(alerts, self) : r.duplicate_count < MaxDuplicates
            /\ alerts' = dedup_alert(alerts, updated, change)
            /\ resp' = Response("receive", 201, "duplicate")
            /\ UNCHANGED nextId

\* Alert.update: the correlated alert takes the incoming event and severity
Update(self) ==
    \E correlate_with \in is_correlated(alerts, self) :
      \E previous_severity \in get_severity(alerts, self) :
        LET status == correlate_with.status
            withPrevious == [self EXCEPT !.previous_severity = previous_severity]
            t == transition(withPrevious, status, None)
            change == <<History("severity", self.event, self.severity, t.status)>>
            updated ==
                [withPrevious EXCEPT
                    !.trend_indication = trend(previous_severity, self.severity),
                    !.duplicate_count = 0, !.repeat = FALSE, !.status = t.status]
        IN  /\ alerts' = correlate_alert(alerts, updated, change)
            /\ resp' = Response("receive", 201, "correlate")
            /\ UNCHANGED nextId

\* Alert.create: a new row with one history record of type new
Create(self) ==
    LET t == transition(self, None, None)
        created ==
            [self EXCEPT
                !.trend_indication = trend(DEFAULT_PREVIOUS_SEVERITY, self.severity),
                !.status = t.status, !.duplicate_count = 0, !.repeat = FALSE,
                !.previous_severity = DEFAULT_PREVIOUS_SEVERITY,
                !.history = <<History("new", self.event, self.severity, t.status)>>]
    IN  /\ Cardinality(alerts) < MaxAlerts
        /\ alerts' = create_alert(alerts, created)
        /\ nextId' = nextId + 1
        /\ resp' = Response("receive", 201, "create")

\* process_alert: duplicate, else correlate, else create
ProcessAlert(i) ==
    LET self == Alert(i, nextId)
    IN  IF is_duplicate(alerts, self) # {} THEN Deduplicate(self)
        ELSE IF is_correlated(alerts, self) # {} THEN Update(self)
        ELSE Create(self)

\* POST /alert
Receive(i) ==
    /\ budget > 0
    /\ budget' = budget - 1
    /\ ProcessAlert(i)
    /\ UNCHANGED <<sm, smOut, pc, seen, notif>>

\* PUT /alert/<id>/action: Alert.from_action through set_alert
ActionAlert(id, action) ==
    /\ budget > 0
    /\ budget' = budget - 1
    /\ IF get_alert(alerts, id) = {}
       THEN /\ resp' = Response("action", 404, "not found")
            /\ UNCHANGED alerts
       ELSE \E alert \in get_alert(alerts, id) :
            LET t == transition(alert, alert.status, action)
            IN  IF t.raised = "InvalidAction"
                THEN /\ resp' = Response("action", 409, "InvalidAction")
                     /\ UNCHANGED alerts
                ELSE /\ alerts' = set_alert(alerts, id, t.severity, t.status,
                            IF t.severity = alert.severity
                            THEN alert.previous_severity ELSE alert.severity,
                            <<History(action, alert.event, t.severity, t.status)>>)
                     /\ resp' = Response("action", 200, action)
    /\ UNCHANGED <<nextId, sm, smOut, pc, seen, notif>>

\* PUT /alert/<id>/status: Alert.from_status through set_status
SetStatus(id, status) ==
    /\ budget > 0
    /\ budget' = budget - 1
    /\ IF get_alert(alerts, id) = {}
       THEN /\ resp' = Response("status", 404, "not found")
            /\ UNCHANGED alerts
       ELSE \E alert \in get_alert(alerts, id) :
            /\ alerts' = set_status(alerts, id, status,
                    <<History("status", alert.event, alert.severity, status)>>)
            /\ resp' = Response("status", 200, status)
    /\ UNCHANGED <<nextId, sm, smOut, pc, seen, notif>>

\* PUT /alert/<id>/note: Alert.add_note through add_history
AddNote(id) ==
    /\ budget > 0
    /\ budget' = budget - 1
    /\ IF get_alert(alerts, id) = {}
       THEN /\ resp' = Response("note", 404, "not found")
            /\ UNCHANGED alerts
       ELSE \E alert \in get_alert(alerts, id) :
            /\ alerts' = add_history(alerts, id,
                    <<History("note", alert.event, alert.severity, alert.status)>>)
            /\ resp' = Response("note", 201, "note")
    /\ UNCHANGED <<nextId, sm, smOut, pc, seen, notif>>

AlertIds == 1..MaxAlerts

\* smOut before the call has returned
Pending == [raised |-> "pending", severity |-> None, status |-> None]

NoCall == [status |-> None, severity |-> None, previous_severity |-> None,
           current_status |-> None, action |-> None]

\* ret before the call has returned, and after
NotReturned == [done |-> FALSE, value |-> None]
Return(value) == [done |-> TRUE, value |-> value]

\* no blackout, the settings of alerta/settings.py, nothing sent
InitConfig ==
    /\ blackouts = {}
    /\ config = [CUSTOMER_VIEWS |-> FALSE]
    /\ notification_history = {}
    /\ sends = {}
    /\ notification_channels = {}
    /\ tokens = {}

\* no call of SpecSel, no notification rule, nothing enqueued or handed over
InitNotif ==
    /\ call = [op |-> None]
    /\ ret = NotReturned
    /\ rules = {}
    /\ escalation_rules = {}
    /\ InitConfig
    /\ delayed = {}
    /\ handed = {}
    /\ now = 0

InitStore ==
    /\ alerts = {}
    /\ nextId = 1
    /\ resp = Response(None, 0, None)
    /\ sm = NoCall
    /\ smOut = Pending
    /\ pc = <<>>
    /\ seen = <<>>
    /\ InitNotif

Init == InitStore /\ budget = MaxOps

Next ==
    \/ \E i \in Incoming : Receive(i)
    \/ \E id \in AlertIds, action \in Actions : ActionAlert(id, action)
    \/ \E id \in AlertIds, status \in SetStatuses : SetStatus(id, status)
    \/ \E id \in AlertIds : AddNote(id)

Spec == Init /\ [][Next]_vars

\* the same requests, one more of them in a behaviour
InitDeep == InitStore /\ budget = MaxOpsDeep

SpecDeep == InitDeep /\ [][Next]_vars

(***************************************************************************)
(* StateMachine.transition as a function of its arguments                  *)
(***************************************************************************)
TransitionCalls ==
    [status : STATUS_MAP, severity : Severity,
     previous_severity : Severity \cup {None},
     current_status : STATUS_MAP \cup {None}, action : Actions \cup {None}]

InitSM ==
    /\ alerts = {}
    /\ nextId = 1
    /\ resp = Response(None, 0, None)
    /\ budget = 0
    /\ sm \in TransitionCalls
    /\ smOut = Pending
    /\ pc = <<>>
    /\ seen = <<>>
    /\ InitNotif

CallTransition ==
    /\ smOut = Pending
    /\ smOut' = transition(sm, sm.current_status, sm.action)
    /\ UNCHANGED <<alerts, nextId, resp, budget, sm, pc, seen, notif>>

NextSM == CallTransition

SpecSM == InitSM /\ [][NextSM]_vars

(***************************************************************************)
(* Two POST /alert requests served in parallel.  Each query and each       *)
(* update is its own statement on the store (_fetchone, _updateone,        *)
(* _insert); nothing holds a lock from one statement to the next.          *)
(***************************************************************************)
Procs == {1, 2}

\* what a request holds between statements: its alert, the row its last
\* query returned (a set of at most one row), and its outcome when done
Request(i) == [incoming |-> i, found |-> {}, outcome |-> None]

SameIdentity(i, j) ==
    /\ i.environment = j.environment
    /\ i.resource = j.resource
    /\ i.event = j.event
    /\ i.customer = j.customer

InitConc ==
    /\ alerts = {}
    /\ nextId = 1
    /\ resp = Response(None, 0, None)
    /\ budget = 0
    /\ sm = NoCall
    /\ smOut = Pending
    /\ pc = [p \in Procs |-> "is_duplicate"]
    /\ InitNotif
    /\ \E i, j \in Incoming :
        /\ SameIdentity(i, j)
        /\ seen = [p \in Procs |-> Request(IF p = 1 THEN i ELSE j)]

\* the alert object of request p; its id is the request's own
Self(p) == Alert(seen[p].incoming, p)

Finish(p, outcome) ==
    /\ pc' = [pc EXCEPT ![p] = "done"]
    /\ seen' = [seen EXCEPT ![p].outcome = outcome]
    /\ resp' = Response("receive", 201, outcome)

\* alert.is_duplicate()
IsDuplicateQuery(p) ==
    /\ pc[p] = "is_duplicate"
    /\ IF is_duplicate(alerts, Self(p)) = {}
       THEN /\ pc' = [pc EXCEPT ![p] = "is_correlated"]
            /\ UNCHANGED seen
       ELSE \E duplicate_of \in is_duplicate(alerts, Self(p)) :
            /\ pc' = [pc EXCEPT ![p] = "deduplicate"]
            /\ seen' = [seen EXCEPT ![p].found = {duplicate_of}]
    /\ UNCHANGED <<alerts, nextId, resp, budget, sm, smOut, notif>>

\* alert.is_correlated()
IsCorrelatedQuery(p) ==
    /\ pc[p] = "is_correlated"
    /\ IF is_correlated(alerts, Self(p)) = {}
       THEN /\ pc' = [pc EXCEPT ![p] = "create"]
            /\ UNCHANGED seen
       ELSE \E correlate_with \in is_correlated(alerts, Self(p)) :
            /\ pc' = [pc EXCEPT ![p] = "update"]
            /\ seen' = [seen EXCEPT ![p].found = {correlate_with}]
    /\ UNCHANGED <<alerts, nextId, resp, budget, sm, smOut, notif>>

\* alert.deduplicate(duplicate_of): dedup_alert on the store as it is now
DeduplicateWrite(p) ==
    /\ pc[p] = "deduplicate"
    /\ \E duplicate_of \in seen[p].found :
        LET self == Self(p)
            t == transition(self, duplicate_of.status, None)
            change == IF t.status # duplicate_of.status
                      THEN <<History("status", self.event, self.severity, t.status)>>
                      ELSE <<>>
        IN  alerts' = dedup_alert(alerts, [self EXCEPT !.repeat = TRUE,
                                                       !.status = t.status], change)
    /\ Finish(p, "duplicate")
    /\ UNCHANGED <<nextId, budget, sm, smOut, notif>>

\* alert.update(correlate_with): correlate_alert on the store as it is now
UpdateWrite(p) ==
    /\ pc[p] = "update"
    /\ \E correlate_with \in seen[p].found :
        LET self == [Self(p) EXCEPT !.previous_severity = correlate_with.severity]
            t == transition(self, correlate_with.status, None)
            change == <<History("severity", self.event, self.severity, t.status)>>
        IN  alerts' = correlate_alert(alerts,
                [self EXCEPT
                    !.trend_indication = trend(correlate_with.severity, self.severity),
                    !.duplicate_count = 0, !.repeat = FALSE, !.status = t.status],
                change)
    /\ Finish(p, "correlate")
    /\ UNCHANGED <<nextId, budget, sm, smOut, notif>>

\* alert.create(): the INSERT
CreateWrite(p) ==
    /\ pc[p] = "create"
    /\ LET self == Self(p)
           t == transition(self, None, None)
       IN  alerts' = create_alert(alerts,
               [self EXCEPT
                   !.trend_indication = trend(DEFAULT_PREVIOUS_SEVERITY, self.severity),
                   !.status = t.status, !.duplicate_count = 0, !.repeat = FALSE,
                   !.previous_severity = DEFAULT_PREVIOUS_SEVERITY,
                   !.history = <<History("new", self.event, self.severity, t.status)>>])
    /\ Finish(p, "create")
    /\ UNCHANGED <<nextId, budget, sm, smOut, notif>>

NextConc ==
    \/ \E p \in Procs : IsDuplicateQuery(p)
    \/ \E p \in Procs : IsCorrelatedQuery(p)
    \/ \E p \in Procs : DeduplicateWrite(p)
    \/ \E p \in Procs : UpdateWrite(p)
    \/ \E p \in Procs : CreateWrite(p)

SpecConc == InitConc /\ [][NextConc]_vars

\* C1: two ingests of one alert identity run concurrently against a store
\* with no alert of that identity; each observes exactly one of duplicate,
\* correlate, create, at most one of them create, and the store ends with
\* exactly one row of that identity.
C1_AtMostOneCreate ==
    (\A p \in Procs : pc[p] = "done") =>
        /\ \A p \in Procs : seen[p].outcome \in {"duplicate", "correlate", "create"}
        /\ Cardinality({p \in Procs : seen[p].outcome = "create"}) <= 1
        /\ Cardinality({r \in alerts : SameIdentity(r, seen[1].incoming)}) = 1

(***************************************************************************)
(* database/backends/postgres/base.py: NOTIFICATION RULES                  *)
(* A row of notification_rules is a record; triggers, tags and             *)
(* excluded_tags are arrays (sequences) of composite values whose fields   *)
(* are sets.  The parameters of a selection are the fields of the alert.   *)
(***************************************************************************)
\* lines 1155-1157, 1164-1168: the conditions on the columns of the rule
RuleWhere_EndInclusive(r, alert) ==
    /\ (r.start_time = NULL \/ r.start_time <= alert.time)
    /\ (r.end_time = NULL \/ r.end_time >= alert.time)
    /\ (r.days = {} \/ {alert.day} \subseteq r.days)
    /\ r.environment = alert.environment
    /\ (r.resource = None \/ r.resource = alert.resource)
    /\ (r.service = {} \/ r.service \subseteq alert.service)
    /\ (r.event = None \/ r.event = alert.event)
    /\ (r.group = None \/ r.group = alert.group)
    /\ r.active = TRUE

RuleWhere(r, alert) ==
    /\ (r.start_time = NULL \/ r.start_time <= alert.time)
    /\ (r.end_time = NULL \/ r.end_time > alert.time)
    /\ (r.days = {} \/ {alert.day} \subseteq r.days)
    /\ r.environment = alert.environment
    /\ (r.resource = None \/ r.resource = alert.resource)
    /\ (r.service = {} \/ r.service \subseteq alert.service)
    /\ (r.event = None \/ r.event = alert.event)
    /\ (r.group = None \/ r.group = alert.group)
    /\ r.active = TRUE

\* lines 1158-1162: the condition on triggers[s], the status of the alert
TriggerWhere(trigger, alert) ==
    /\ (trigger.from_severity = {}
        \/ {alert.previous_severity} \subseteq trigger.from_severity)
    /\ (trigger.to_severity = {}
        \/ {alert.severity} \subseteq trigger.to_severity)
    /\ (trigger.status = {} \/ {alert.status} \subseteq trigger.status)

\* TriggerWhereStatus with an empty status array matching every status
TriggerWhereStatus_EmptyMatches(trigger, alert, status) ==
    /\ (trigger.from_severity = {}
        \/ {alert.previous_severity} \subseteq trigger.from_severity)
    /\ (trigger.to_severity = {}
        \/ {alert.severity} \subseteq trigger.to_severity)
    /\ (trigger.status = {} \/ {status} \subseteq trigger.status)

\* lines 1205-1209: the condition on triggers[s], the status of the call
TriggerWhereStatus(trigger, alert, status) ==
    /\ (trigger.from_severity = {}
        \/ {alert.previous_severity} \subseteq trigger.from_severity)
    /\ (trigger.to_severity = {}
        \/ {alert.severity} \subseteq trigger.to_severity)
    /\ {status} \subseteq trigger.status

\* TagsWhere with the any array ignored
TagsWhere_AllOnly(tag, tags) ==
    tag.all = {} \/ tag.all \subseteq tags

\* lines 1171-1172: the condition on tags[t]
TagsWhere(tag, tags) ==
    /\ (tag.all = {} \/ tag.all \subseteq tags)
    /\ (tag.any = {} \/ tag.any \cap tags # {})

\* ExcludedWhere with an entry of two arrays excluding on either of them
ExcludedWhere_EitherPart(e, tags) ==
    /\ ~(e.all = {} /\ e.any = {})
    /\ \/ e.all = {} /\ tags \cap e.any # {}
       \/ e.any = {} /\ e.all \subseteq tags
       \/ e.all \subseteq tags \/ tags \cap e.any # {}

\* ExcludedWhere with an entry of one array, all, excluding nothing
ExcludedWhere_NeedsAny(e, tags) ==
    /\ ~(e.all = {} /\ e.any = {})
    /\ \/ e.all = {} /\ tags \cap e.any # {}
       \/ e.all \subseteq tags /\ tags \cap e.any # {}

\* lines 1175-1180: the condition on an unnested entry of excluded_tags
ExcludedWhere(e, tags) ==
    /\ ~(e.all = {} /\ e.any = {})
    /\ \/ e.all = {} /\ tags \cap e.any # {}
       \/ e.any = {} /\ e.all \subseteq tags
       \/ e.all \subseteq tags /\ tags \cap e.any # {}

\* generate_subscripts(array, 1): one row per index, none of an empty array
Subscripts(array) == DOMAIN array

\* lines 1152-1169: a row per rule and subscript s of its triggers
alert_triggers(T, alert) ==
    {x \in UNION {{[rule |-> r, s |-> s, t |-> 0] : s \in Subscripts(r.triggers)}
                  : r \in T} :
        RuleWhere(x.rule, alert) /\ TriggerWhere(x.rule.triggers[x.s], alert)}

\* lines 1200-1216: the same with the status of the call
alert_triggers_status(T, alert, status) ==
    {x \in UNION {{[rule |-> r, s |-> s, t |-> 0] : s \in Subscripts(r.triggers)}
                  : r \in T} :
        /\ RuleWhere(x.rule, alert)
        /\ TriggerWhereStatus(x.rule.triggers[x.s], alert, status)}

\* lines 1169-1173: a row per row of alert_triggers and subscript t of tags
alert_tags(triggered, alert) ==
    {x \in UNION {{[rule |-> y.rule, s |-> y.s, t |-> t]
                   : t \in Subscripts(y.rule.tags)} : y \in triggered} :
        TagsWhere(x.rule.tags[x.t], alert.tags)}

\* lines 1173-1181: the ids of the rows an entry of excluded_tags excludes
alert_excluded(tagged, alert) ==
    {x.rule.id : x \in
        {y \in tagged : \E e \in Subscripts(y.rule.excluded_tags) :
            ExcludedWhere(y.rule.excluded_tags[e], alert.tags)}}

\* lines 1183-1184: the rows of alert_tags whose id is not excluded
SelectNotExcluded(tagged, alert) ==
    {x \in tagged : x.rule.id \notin alert_excluded(tagged, alert)}

get_notification_rules_active(T, alert) ==
    SelectNotExcluded(alert_tags(alert_triggers(T, alert), alert), alert)

get_notification_rules_active_status(T, alert, status) ==
    SelectNotExcluded(alert_tags(alert_triggers_status(T, alert, status), alert),
                      alert)

\* EscalationWhere with >= for > in the condition on the age
EscalationWhere_Reached(a, e, time) ==
    /\ e.active = TRUE
    /\ a.status = Open
    /\ time - a.last_receive_time >= e.time
    /\ a.environment = e.environment
    /\ (e.resource = None \/ e.resource = a.resource \/ e.resource = "")
    /\ (e.service = {} \/ e.service \subseteq a.service)
    /\ (e.event = None \/ e.event = a.event \/ e.event = "")
    /\ (e.group = None \/ e.group = a.group)

(***************************************************************************)
(* database/backends/postgres/base.py: ESCALATION RULES                    *)
(***************************************************************************)
\* lines 1551-1558: the conditions on an alert a and an escalation rule e
EscalationWhere(a, e, time) ==
    /\ e.active = TRUE
    /\ a.status = Open
    /\ time - a.last_receive_time > e.time
    /\ a.environment = e.environment
    /\ (e.resource = None \/ e.resource = a.resource \/ e.resource = "")
    /\ (e.service = {} \/ e.service \subseteq a.service)
    /\ (e.event = None \/ e.event = a.event \/ e.event = "")
    /\ (e.group = None \/ e.group = a.group)

\* line 1559: the condition on e.triggers[s]
EscalationTriggerWhere(a, trigger) ==
    /\ (trigger.from_severity = {}
        \/ {a.previous_severity} \subseteq trigger.from_severity)
    /\ (trigger.to_severity = {} \/ {a.severity} \subseteq trigger.to_severity)

\* lines 1548-1560: the alerts some rule and some subscript of its triggers
\* select
escalation_alert_triggers(A, E, time) ==
    {a \in A : \E e \in E : \E s \in Subscripts(e.triggers) :
        EscalationWhere(a, e, time) /\ EscalationTriggerWhere(a, e.triggers[s])}

\* lines 1561-1565: joined with escalation_rules again, every row of it
escalation_alert_tags(triggered, E) ==
    {a \in triggered : \E e \in E : \E t \in Subscripts(e.tags) :
        TagsWhere(e.tags[t], a.tags)}

\* lines 1565-1573: and once more for the excluded_tags of every row
escalation_alert_excluded(tagged, E) ==
    {a.id : a \in {b \in tagged :
        \E e \in E : \E x \in Subscripts(e.excluded_tags) :
            ExcludedWhere(e.excluded_tags[x], b.tags)}}

get_escalation_alerts(A, E, time) ==
    LET tagged == escalation_alert_tags(escalation_alert_triggers(A, E, time), E)
    IN  {a \in tagged : a.id \notin escalation_alert_excluded(tagged, E)}

(***************************************************************************)
(* The selections and StateMachine.trend as functions of their arguments:  *)
(* one call in a behaviour, its arguments in call and in the tables, its   *)
(* result in ret.                                                          *)
(***************************************************************************)
\* what a call reads and leaves as it is
args == <<alerts, nextId, resp, budget, sm, smOut, pc, seen,
          call, rules, idle, delayed, handed, now>>

\* the arrays of at most MaxEntries elements of S
ArraysOf(S) == UNION {[1..n -> S] : n \in 0..MaxEntries}

\* a rule as NotificationRule.__init__ builds it from its mandatory fields
BaseRule ==
    [id |-> 1, active |-> TRUE, environment |-> "Production",
     resource |-> None, event |-> None, group |-> None, service |-> {},
     days |-> {}, start_time |-> NULL, end_time |-> NULL,
     triggers |-> <<[from_severity |-> {}, to_severity |-> {}, status |-> {}]>>,
     tags |-> <<[all |-> {}, any |-> {}]>>,
     excluded_tags |-> <<[all |-> {}, any |-> {}]>>,
     delay_time |-> NULL, reactivate |-> NULL]

\* the fields of an alert a selection reads
BaseAlert ==
    [environment |-> "Production", resource |-> "n1", event |-> "down",
     group |-> "g1", service |-> {"s1"}, tags |-> {},
     previous_severity |-> "normal", severity |-> "major", status |-> Open,
     time |-> 1, day |-> "Mon"]

SelectionCall(alert, status) ==
    [op |-> IF status = None THEN "active" ELSE "active_status",
     alert |-> alert, status |-> status]

InitTrend ==
    /\ call \in [op : {"trend"}, previous : Severity, current : Severity]
    /\ rules = {}
    /\ alerts = {}
    /\ escalation_rules = {}
    /\ InitConfig

\* one rule that differs from BaseRule by its triggers, and an alert that
\* differs from BaseAlert by its severities and its status
InitTriggers ==
    /\ \E triggers \in ArraysOf([from_severity : {{}, {"minor"}},
                                  to_severity : {{}, {"major"}},
                                  status : {{}, {Open}}]) :
            rules = {[BaseRule EXCEPT !.triggers = triggers]}
    /\ alerts = {}
    /\ escalation_rules = {}
    /\ InitConfig
    /\ \E previous_severity \in {"normal", "minor"},
          severity \in {"minor", "major"},
          alert_status \in {Open, Ack},
          status \in {None, Open, Ack} :
            call = SelectionCall(
                       [BaseAlert EXCEPT !.previous_severity = previous_severity,
                                         !.severity = severity,
                                         !.status = alert_status],
                       status)

\* one rule that differs from BaseRule by its tags and its excluded_tags
\* (one of the two arrays of at most one entry, the other of at most
\* MaxEntries) and by the status of its trigger, and an alert that differs
\* from BaseAlert by its tags
InitTags ==
    /\ \E tags, excluded_tags \in
              ArraysOf([all : {{}, {"test", "dev"}},
                        any : {{}, {"test", "dev"}, {"any", "all"}}]) :
          /\ Len(tags) <= 1 \/ Len(excluded_tags) <= 1
          /\ rules = {[BaseRule EXCEPT
                           !.tags = tags, !.excluded_tags = excluded_tags,
                           !.triggers = <<[from_severity |-> {},
                                           to_severity |-> {},
                                           status |-> {Open}]>>]}
    /\ \E T \in {{}, {"test"}, {"test", "dev"}, {"test", "dev", "any"},
                  {"test", "dev", "any", "all"}, {"any"}},
          status \in {None, Open} :
            call = SelectionCall([BaseAlert EXCEPT !.tags = T], status)
    /\ alerts = {}
    /\ escalation_rules = {}
    /\ InitConfig

\* one rule that differs from BaseRule by the columns compared with the
\* alert, and an alert that differs from BaseAlert by its time of day
InitAttributes ==
    /\ \E active \in BOOLEAN,
          environment \in {"Production", "Development"},
          resource \in {None, "n1", "n2"},
          event \in {None, "down", "up"},
          group \in {None, "g1", "g2"},
          service \in {{}, {"s1"}, {"s1", "s2"}},
          days \in {{}, {"Mon"}, {"Tue", "Wed"}},
          start_time \in {NULL, 1, 2},
          end_time \in {NULL, 2, 3} :
            rules = {[BaseRule EXCEPT
                         !.active = active, !.environment = environment,
                         !.resource = resource, !.event = event,
                         !.group = group, !.service = service, !.days = days,
                         !.start_time = start_time, !.end_time = end_time]}
    /\ \E time \in {1, 2} :
            call = SelectionCall([BaseAlert EXCEPT !.time = time], None)
    /\ alerts = {}
    /\ escalation_rules = {}
    /\ InitConfig

\* an escalation rule as EscalationRule.__init__ builds it
BaseEscalation ==
    [id |-> "e1", active |-> TRUE, time |-> 1, environment |-> "Production",
     resource |-> None, event |-> None, group |-> None, service |-> {},
     triggers |-> <<[from_severity |-> {}, to_severity |-> {}, status |-> {}]>>,
     tags |-> <<[all |-> {}, any |-> {}]>>,
     excluded_tags |-> <<[all |-> {}, any |-> {}]>>]

\* an open alert, a rule that differs from BaseEscalation by being active
\* or not, by its delay and by its tags and excluded_tags, and perhaps a
\* second rule, not active, with tags and excluded_tags of its own
InitEscalation ==
    /\ \E T \in {{}, {"test"}, {"test", "dev"}, {"test", "dev", "any"},
                  {"test", "dev", "any", "all"}, {"any"}} :
            alerts = {[BaseAlert EXCEPT !.tags = T] @@
                      [id |-> 1, last_receive_time |-> 0]}
    /\ \E tags, excluded_tags \in
              ArraysOf([all : {{}, {"test", "dev"}},
                        any : {{}, {"test", "dev"}, {"any", "all"}}]),
          active \in BOOLEAN, time \in {1, 2},
          others \in SUBSET {[BaseEscalation EXCEPT
                                 !.id = "e2", !.active = FALSE,
                                 !.tags = <<[all |-> {"any"}, any |-> {}]>>,
                                 !.excluded_tags =
                                     <<[all |-> {}, any |-> {"all"}]>>]} :
          /\ Len(tags) <= 1 \/ Len(excluded_tags) <= 1
          /\ escalation_rules =
                 {[BaseEscalation EXCEPT !.tags = tags, !.active = active,
                      !.time = time, !.excluded_tags = excluded_tags]}
                 \cup others
    /\ InitConfig
    /\ call = [op |-> "escalation", time |-> 2]
    /\ rules = {}

InitSel ==
    /\ nextId = 1
    /\ resp = Response(None, 0, None)
    /\ budget = 0
    /\ sm = NoCall
    /\ smOut = Pending
    /\ pc = <<>>
    /\ seen = <<>>
    /\ ret = NotReturned
    /\ delayed = {}
    /\ handed = {}
    /\ now = 0
    /\ \/ InitTrend
       \/ InitTriggers
       \/ InitTags
       \/ InitEscalation
       \/ InitAttributes

CallTrend ==
    /\ ret = NotReturned
    /\ call.op = "trend"
    /\ ret' = Return(trend(call.previous, call.current))
    /\ UNCHANGED args

CallActive ==
    /\ ret = NotReturned
    /\ call.op = "active"
    /\ ret' = Return(get_notification_rules_active(rules, call.alert))
    /\ UNCHANGED args

CallActiveStatus ==
    /\ ret = NotReturned
    /\ call.op = "active_status"
    /\ ret' = Return(get_notification_rules_active_status(rules, call.alert,
                                                          call.status))
    /\ UNCHANGED args

CallEscalation ==
    /\ ret = NotReturned
    /\ call.op = "escalation"
    /\ ret' = Return(get_escalation_alerts(alerts, escalation_rules, call.time))
    /\ UNCHANGED args

NextSel ==
    \/ CallTrend
    \/ CallActive
    \/ CallActiveStatus
    \/ CallEscalation

SpecSel == InitSel /\ [][NextSel]_vars

(***************************************************************************)
(* database/backends/postgres/base.py: DELAYED NOTIFICATIONS, and the      *)
(* writes of NOTIFICATION RULES                                            *)
(***************************************************************************)
\* get_delayed_notifications_firing with <= for <
get_delayed_notifications_firing_Reached(D, time) ==
    {d \in D : d.delay_time <= time}

get_delayed_notifications_firing(D, time) == {d \in D : d.delay_time < time}

\* delete_delayed_notifications_alert with a WHERE no row satisfies
delete_delayed_notifications_alert_Nothing(D, alert_id) ==
    {d \in D : d.alert_id # alert_id \/ d.alert_id = alert_id}

delete_delayed_notifications_alert(D, alert_id) ==
    {d \in D : d.alert_id # alert_id}

delete_delayed_notification(D, id) == {d \in D : d.id # id}

get_notification_rule(T, id) == {r \in T : r.id = id}

create_notification_rule(T, notification_rule) == T \cup {notification_rule}

\* the SET list is built from the keys of kwargs: tags when its value is
\* not None, excludedTags, active and reactivate when the key is present
update_notification_rule(T, id, kwargs) ==
    {IF r.id = id
     THEN [r EXCEPT
              !.tags = IF "tags" \in DOMAIN kwargs THEN kwargs["tags"] ELSE @,
              !.excluded_tags = IF "excludedTags" \in DOMAIN kwargs
                                THEN kwargs["excludedTags"] ELSE @,
              !.active = IF "active" \in DOMAIN kwargs
                         THEN kwargs["active"] ELSE @,
              !.reactivate = IF "reactivate" \in DOMAIN kwargs
                             THEN kwargs["reactivate"] ELSE @]
     ELSE r : r \in T}

get_notification_rules_reactivate_Reached(T, time) ==
    {r \in T : r.active = FALSE /\ r.reactivate # NULL /\ r.reactivate <= time}

get_notification_rules_reactivate(T, time) ==
    {r \in T : r.active = FALSE /\ r.reactivate # NULL /\ r.reactivate < time}

delete_notification_rule(T, id) == {r \in T : r.id # id}

(***************************************************************************)
(* models/notification_rule.py and plugins/notification_rule.py            *)
(***************************************************************************)
\* NotificationRule.parse(json): json gives tags, excludedTags, triggers
\* and delayTime, the rest is as in BaseRule.  __init__ stores
\* [AdvancedTags([], [])] for an empty list of tags or of excluded tags.
NotificationRule(json, id) ==
    [BaseRule EXCEPT
        !.id = id,
        !.tags = IF json.tags = <<>> THEN BaseRule.tags ELSE json.tags,
        !.excluded_tags = IF json.excludedTags = <<>>
                          THEN BaseRule.excluded_tags ELSE json.excludedTags,
        !.triggers = json.triggers,
        !.delay_time = json.delayTime]

\* find_all_active with the test of duplicate_count inverted
find_all_active_OnDuplicates(T, alert) ==
    IF alert.duplicate_count = 0 THEN {}
    ELSE get_notification_rules_active(T, alert)

find_all_active(T, alert) ==
    IF alert.duplicate_count # 0 THEN {}
    ELSE get_notification_rules_active(T, alert)

find_all_active_status(T, alert, status) ==
    get_notification_rules_active_status(T, alert, status)

\* delay_notification with the delay of the rule left out
delay_notification_AtOnce(alert, notification_rule, time, id) ==
    [id |-> id, alert_id |-> alert.id,
     notification_rule_id |-> notification_rule.id,
     delay_time |-> time, created |-> time]

\* delay_notification: the row NotificationDelay.parse(...).create() inserts.
\* created is not a column: it records the clock at the insert.
delay_notification(alert, notification_rule, time, id) ==
    [id |-> id, alert_id |-> alert.id,
     notification_rule_id |-> notification_rule.id,
     delay_time |-> time + notification_rule.delay_time, created |-> time]

\* the alert object a plugin is given: the stored row, with the fields the
\* alert engine does not write as in BaseAlert
PluginAlert(row) ==
    [id |-> row.id, environment |-> row.environment, resource |-> row.resource,
     event |-> row.event, group |-> BaseAlert.group,
     service |-> BaseAlert.service, tags |-> BaseAlert.tags,
     previous_severity |-> row.previous_severity, severity |-> row.severity,
     status |-> row.status, time |-> BaseAlert.time, day |-> BaseAlert.day,
     duplicate_count |-> row.duplicate_count, repeat |-> row.repeat]

\* the call of a plugin hook or of a view, and the clock it reads
Hook(op, alert, status) ==
    [op |-> op, alert |-> alert, status |-> status, time |-> now]

\* handle_alert(alert, config, stat), D the delayed rows before it: a row
\* per selected rule with a delay_time, the others handed to the thread
\* that runs handle_notifications.  An id is a fresh uuid: here the number
\* of the request and the row of the selection.
handle_alert(alert, stat, D) ==
    LET notification_rules ==
            IF stat = None THEN find_all_active(rules, alert)
            ELSE find_all_active_status(rules, alert, stat)
    IN  /\ ret' = Return(notification_rules)
        /\ delayed' = D \cup
               {delay_notification(alert, x.rule, now, <<budget, x.rule.id, x.s, x.t>>)
                : x \in {y \in notification_rules : y.rule.delay_time # NULL}}
        /\ handed' =
               {[alert_id |-> alert.id, rule_id |-> x.rule.id, s |-> x.s,
                 t |-> x.t, status |-> stat]
                : x \in {y \in notification_rules : y.rule.delay_time = NULL}}

\* NotificationRulesHandler.post_receive
post_receive(alert) ==
    LET D == delete_delayed_notifications_alert(delayed, alert.id)
    IN  /\ call' = Hook("post_receive", alert, None)
        /\ IF alert.repeat = TRUE
           THEN /\ delayed' = D
                /\ handed' = {}
                /\ ret' = NotReturned
           ELSE handle_alert(alert, None, D)

\* NotificationRulesHandler.status_change
status_change(alert, status) ==
    /\ call' = Hook("status_change", alert, status)
    /\ handle_alert(alert, status,
                    delete_delayed_notifications_alert(delayed, alert.id))

(***************************************************************************)
(* views/alerts.py, views/notification_rules.py and                        *)
(* views/notification_delays.py with PLUGINS = ['notification_rule']       *)
(***************************************************************************)
\* POST /alert: process_alert, then post_receive on the alert it returns
ReceiveNotified(i) ==
    /\ budget > 0
    /\ budget' = budget - 1
    /\ ProcessAlert(i)
    /\ \E row \in {r \in alerts' : DuplicateWhere(r, Alert(i, nextId))} :
           post_receive(PluginAlert(row))
    /\ UNCHANGED <<sm, smOut, pc, seen, rules, idle, now>>

\* PUT /alert/<id>/status: process_status runs status_change on the alert
\* as found, then Alert.from_status writes the status
SetStatusNotified(id, status) ==
    /\ budget > 0
    /\ budget' = budget - 1
    /\ IF get_alert(alerts, id) = {}
       THEN /\ resp' = Response("status", 404, "not found")
            /\ UNCHANGED <<alerts, call, ret, delayed, handed>>
       ELSE \E alert \in get_alert(alerts, id) :
            /\ status_change(PluginAlert(alert), status)
            /\ alerts' = set_status(alerts, id, status,
                    <<History("status", alert.event, alert.severity, status)>>)
            /\ resp' = Response("status", 200, status)
    /\ UNCHANGED <<nextId, sm, smOut, pc, seen, rules, idle, now>>

\* POST /notificationrules
CreateNotificationRule(json) ==
    /\ budget > 0
    /\ budget' = budget - 1
    /\ Cardinality(rules) < MaxRules
    /\ rules' = create_notification_rule(rules, NotificationRule(json, budget))
    /\ resp' = Response("create_rule", 201, budget)
    /\ call' = Hook("create_rule", None, None)
    /\ ret' = NotReturned
    /\ UNCHANGED <<alerts, nextId, sm, smOut, pc, seen, idle,
                   delayed, handed, now>>

\* PUT /notificationrules/<id>
UpdateNotificationRule(id, kwargs) ==
    /\ budget > 0
    /\ budget' = budget - 1
    /\ IF get_notification_rule(rules, id) = {}
       THEN /\ resp' = Response("update_rule", 404, "not found")
            /\ UNCHANGED rules
       ELSE /\ rules' = update_notification_rule(rules, id, kwargs)
            /\ resp' = Response("update_rule", 200, id)
    /\ call' = Hook("update_rule", None, None)
    /\ ret' = NotReturned
    /\ UNCHANGED <<alerts, nextId, sm, smOut, pc, seen, idle,
                   delayed, handed, now>>

\* DELETE /notificationrules/<id>
DeleteNotificationRule(id) ==
    /\ budget > 0
    /\ budget' = budget - 1
    /\ IF get_notification_rule(rules, id) = {}
       THEN /\ resp' = Response("delete_rule", 404, "not found")
            /\ UNCHANGED rules
       ELSE /\ rules' = delete_notification_rule(rules, id)
            /\ resp' = Response("delete_rule", 200, id)
    /\ call' = Hook("delete_rule", None, None)
    /\ ret' = NotReturned
    /\ UNCHANGED <<alerts, nextId, sm, smOut, pc, seen, idle,
                   delayed, handed, now>>

\* handle_delay(delay) raises when the alert or the rule of the row is gone
HandleDelayRaises(d) ==
    \/ get_alert(alerts, d.alert_id) = {}
    \/ get_notification_rule(rules, d.notification_rule_id) = {}

\* GET /notificationdelay/fire: each row find_firing returns is handed to
\* the thread by handle_delay, then deleted.  The rows come in no stated
\* order; a row for which handle_delay raises ends the request, whatever
\* rows came before it are handed and deleted.
fire_notification_delays ==
    LET notifications == get_delayed_notifications_firing(delayed, now)
        Handed(done) ==
            {[alert_id |-> d.alert_id, rule_id |-> d.notification_rule_id,
              delay |-> d, status |-> None] : d \in done}
        Deleted(done) ==
            {d \in delayed : \A n \in done :
                d \in delete_delayed_notification(delayed, n.id)}
    IN  /\ call' = Hook("fire", None, None)
        /\ IF \A d \in notifications : ~HandleDelayRaises(d)
           THEN /\ handed' = Handed(notifications)
                /\ delayed' = Deleted(notifications)
                /\ ret' = Return(notifications)
                /\ resp' = Response("fire", 200, Cardinality(notifications))
           ELSE \E done \in SUBSET {d \in notifications : ~HandleDelayRaises(d)} :
                /\ handed' = Handed(done)
                /\ delayed' = Deleted(done)
                /\ ret' = NotReturned
                /\ resp' = Response("fire", 500, "error")

\* one of the requests of a behaviour of SpecNotified
FireNotificationDelays ==
    /\ budget > 0
    /\ budget' = budget - 1
    /\ fire_notification_delays
    /\ UNCHANGED <<alerts, nextId, sm, smOut, pc, seen, rules, idle, now>>

\* the wall clock advances between two requests
Tick ==
    /\ now < MaxTime
    /\ now' = now + 1
    /\ UNCHANGED <<alerts, nextId, resp, budget, sm, smOut, pc, seen,
                   call, ret, rules, idle, delayed, handed>>

\* the requests: alerts that are not normal and correlate nothing; rules
\* posted with empty lists of tags and of excluded tags, a trigger on the
\* status and perhaps a second one on the severity, and a delay or none; a
\* list of a rule put to empty
NextNotified ==
    \/ \E i \in {j \in Incoming : j.severity # "normal" /\ j.correlate = {}} :
           ReceiveNotified(i)
    \/ \E id \in AlertIds, status \in SetStatuses : SetStatusNotified(id, status)
    \/ \E json \in [tags : {<<>>}, excludedTags : {<<>>},
                     triggers : {<<[from_severity |-> {}, to_severity |-> {},
                                    status |-> {Open, Closed}]>>,
                                 <<[from_severity |-> {}, to_severity |-> {},
                                    status |-> {Open, Closed}],
                                   [from_severity |-> {},
                                    to_severity |-> {"major"},
                                    status |-> {}]>>},
                     delayTime : {NULL, 1}] :
           CreateNotificationRule(json)
    \/ \E id \in 1..MaxOps, kwargs \in {"tags" :> <<>>, "excludedTags" :> <<>>} :
           UpdateNotificationRule(id, kwargs)
    \/ \E id \in 1..MaxOps : DeleteNotificationRule(id)
    \/ FireNotificationDelays
    \/ Tick

SpecNotified == Init /\ [][NextNotified]_vars

(***************************************************************************)
(* views/notification_delays.py: two requests GET /notificationdelay/fire  *)
(* served in parallel.  A request is a sequence of statements, each its    *)
(* own transaction: find_firing, then for every row it returned            *)
(* handle_delay and the delete of that row by id.  handle_delay reads the  *)
(* alert and the rule, never the table of delayed notifications, so it is  *)
(* one step with the delete that follows it.  seen[p] are the rows request *)
(* p still has to go through.                                              *)
(***************************************************************************)
\* the tables when the requests arrive: delayed rows of up to MaxAlerts
\* alerts and MaxRules rules, one row at most for an alert and a rule; the
\* second rule may have been deleted since
InitSweep ==
    /\ alerts = {BaseAlert @@ [id |-> a, last_receive_time |-> 0] : a \in AlertIds}
    /\ nextId = MaxAlerts + 1
    /\ resp = Response(None, 0, None)
    /\ budget = 0
    /\ sm = NoCall
    /\ smOut = Pending
    /\ call = [op |-> None]
    /\ ret = NotReturned
    /\ escalation_rules = {}
    /\ InitConfig
    /\ handed = {}
    /\ pc = [p \in Procs |-> "find_firing"]
    /\ seen = [p \in Procs |-> {}]
    /\ now \in 0..MaxTime
    /\ \E ids \in {1..MaxRules, {1}} :
           rules = {[BaseRule EXCEPT !.id = r, !.delay_time = 1] : r \in ids}
    /\ \E pairs \in SUBSET (AlertIds \X (1..MaxRules)) :
       \E delay_time \in [pairs -> 0..MaxTime] :
           delayed = {[id |-> x, alert_id |-> x[1],
                       notification_rule_id |-> x[2],
                       delay_time |-> delay_time[x], created |-> 0]
                      : x \in pairs}

\* notifications = NotificationDelay.find_firing()
FindFiring(p) ==
    /\ pc[p] = "find_firing"
    /\ seen' = [seen EXCEPT ![p] = get_delayed_notifications_firing(delayed, now)]
    /\ pc' = [pc EXCEPT ![p] = "for"]
    /\ UNCHANGED <<alerts, nextId, resp, budget, sm, smOut, notif>>

\* one pass of the loop: handle_delay(notification), which hands the
\* notification to a thread or raises, and notification.delete()
HandleDelay(p) ==
    /\ pc[p] = "for"
    /\ \E notification \in seen[p] :
           IF HandleDelayRaises(notification)
           THEN /\ pc' = [pc EXCEPT ![p] = "done"]
                /\ resp' = Response("fire", 500, "error")
                /\ UNCHANGED <<seen, delayed, handed>>
           ELSE /\ handed' = handed \cup
                       {[alert_id |-> notification.alert_id,
                         rule_id |-> notification.notification_rule_id,
                         delay |-> notification, status |-> None, by |-> p]}
                /\ delayed' = delete_delayed_notification(delayed, notification.id)
                /\ seen' = [seen EXCEPT ![p] = @ \ {notification}]
                /\ UNCHANGED <<pc, resp>>
    /\ UNCHANGED <<alerts, nextId, budget, sm, smOut, call, ret, rules,
                   idle, now>>

\* the loop has ended: return jsonify(status='ok', ...)
FireReturn(p) ==
    /\ pc[p] = "for"
    /\ seen[p] = {}
    /\ pc' = [pc EXCEPT ![p] = "done"]
    /\ resp' = Response("fire", 200, "ok")
    /\ UNCHANGED <<alerts, nextId, budget, sm, smOut, seen, notif>>

NextSweep ==
    \E p \in Procs : FindFiring(p) \/ HandleDelay(p) \/ FireReturn(p)

SpecSweep == InitSweep /\ [][NextSweep]_vars

(***************************************************************************)
(* SpecFire: GET /notificationdelay/fire requested again and again, one    *)
(* request after the other, as the clock advances.  The tables are those   *)
(* of SpecSweep.  The scheduler that requests the sweep never stops        *)
(* requesting it and the clock never stops before MaxTime: both steps are  *)
(* taken whenever they stay possible.                                      *)
(***************************************************************************)
InitFire ==
    /\ alerts = {BaseAlert @@ [id |-> a, last_receive_time |-> 0] : a \in 1..MaxAlerts}
    /\ nextId = MaxAlerts + 1
    /\ resp = Response(None, 0, None)
    /\ budget = 0
    /\ sm = NoCall
    /\ smOut = Pending
    /\ call = [op |-> None]
    /\ ret = NotReturned
    /\ escalation_rules = {}
    /\ InitConfig
    /\ handed = {}
    /\ pc = <<>>
    /\ seen = <<>>
    /\ now \in 0..MaxTime
    /\ \E ids \in {1..MaxRules, {1}} :
           rules = {[BaseRule EXCEPT !.id = r, !.delay_time = 1] : r \in ids}
    /\ \E pairs \in SUBSET ((1..MaxAlerts) \X (1..MaxRules)) :
       \E delay_time \in [pairs -> 0..MaxTime] :
           delayed = {[id |-> x, alert_id |-> x[1],
                       notification_rule_id |-> x[2],
                       delay_time |-> delay_time[x], created |-> 0]
                      : x \in pairs}

\* one request of the sweep
FireDue ==
    /\ fire_notification_delays
    /\ UNCHANGED <<alerts, nextId, budget, sm, smOut, pc, seen, rules, idle, now>>

SpecFire ==
    InitFire /\ [][FireDue \/ Tick]_vars /\ WF_vars(FireDue) /\ WF_vars(Tick)

(***************************************************************************)
(* SpecEscalate: GET /escalate as the clock advances.  The view runs       *)
(* EscalationRule.find_all_active() and raises the severity of every alert *)
(* it returns to the next one up in SEVERITY_MAP.                          *)
(***************************************************************************)
\* the severity one step above, the severity itself when there is none
NextSeverity(severity) ==
    LET above == {s \in Severity : SEVERITY_MAP[s] = SEVERITY_MAP[severity] + 1}
    IN  IF above = {} THEN severity ELSE CHOOSE s \in above : TRUE

\* an alert just received, minor or major, open or closed, with tags or
\* none, and perhaps an older open one; a rule that differs from
\* BaseEscalation by its time and by being active or not, and perhaps a
\* second rule, not active, whose excluded_tags reject the tag "all"
InitEscalate ==
    /\ nextId = 1
    /\ resp = Response(None, 0, None)
    /\ budget = MaxScans
    /\ sm = NoCall
    /\ smOut = Pending
    /\ pc = <<>>
    /\ seen = <<>>
    /\ call = [op |-> None]
    /\ ret = NotReturned
    /\ rules = {}
    /\ delayed = {}
    /\ handed = {}
    /\ blackouts = {}
    /\ config = [CUSTOMER_VIEWS |-> FALSE]
    /\ notification_history = {}
    /\ sends = {}
    /\ notification_channels = {}
    /\ tokens = {}
    /\ now \in {0, 1}
    /\ \E severity \in {"minor", "major"}, status \in {Open, Closed},
          T \in {{}, {"all"}},
          older \in SUBSET {[BaseAlert EXCEPT !.severity = "minor"] @@
                            [id |-> 2, last_receive_time |-> 0]} :
          alerts = {[BaseAlert EXCEPT !.severity = severity,
                                      !.status = status, !.tags = T] @@
                    [id |-> 1, last_receive_time |-> now]} \cup older
    /\ \E active \in BOOLEAN, time \in {0, 1},
          others \in SUBSET {[BaseEscalation EXCEPT
                                 !.id = "e2", !.active = FALSE,
                                 !.excluded_tags =
                                     <<[all |-> {}, any |-> {"all"}]>>]} :
          escalation_rules =
              {[BaseEscalation EXCEPT !.active = active, !.time = time]}
              \cup others

\* GET /escalate
Escalate ==
    LET escalated == get_escalation_alerts(alerts, escalation_rules, now)
    IN  /\ budget > 0
        /\ budget' = budget - 1
        /\ call' = Hook("escalate", None, None)
        /\ ret' = Return(escalated)
        /\ alerts' = {IF a \in escalated
                      THEN [a EXCEPT !.severity = NextSeverity(a.severity)]
                      ELSE a : a \in alerts}
        /\ resp' = Response("escalate", 200, Cardinality(escalated))
        /\ UNCHANGED <<nextId, sm, smOut, pc, seen, rules, idle, delayed,
                       handed, now>>

SpecEscalate == InitEscalate /\ [][Escalate \/ Tick]_vars

(***************************************************************************)
(* database/backends/postgres/base.py: HOUSEKEEPING                        *)
(* Times and intervals are numbers of seconds.  A sum with NULL is NULL    *)
(* and a comparison with NULL is not true.                                 *)
(***************************************************************************)
\* get_expired with COALESCE(timeout, ALERT_TIMEOUT)!=0 left out
get_expired_ZeroExpires(A, expired_threshold, info_threshold, time) ==
    LET old == {a \in A : /\ expired_threshold # 0
                          /\ a.status \in {Closed, "expired"}
                          /\ a.last_receive_time < time - expired_threshold}
        info == {a \in A \ old : /\ info_threshold # 0
                                 /\ a.severity = "informational"
                                 /\ a.last_receive_time < time - info_threshold}
        kept == (A \ old) \ info
    IN  [alerts |-> kept,
         expired |-> {a \in kept :
                         /\ a.status \notin {"expired"}
                         /\ a.timeout # NULL
                         /\ a.last_receive_time + a.timeout < time}]

\* get_expired(expired_threshold, info_threshold): the two DELETEs, each
\* run when its threshold is not zero, then the SELECT on what they left
get_expired(A, expired_threshold, info_threshold, time) ==
    LET old == {a \in A : /\ expired_threshold # 0
                          /\ a.status \in {Closed, "expired"}
                          /\ a.last_receive_time < time - expired_threshold}
        info == {a \in A \ old : /\ info_threshold # 0
                                 /\ a.severity = "informational"
                                 /\ a.last_receive_time < time - info_threshold}
        kept == (A \ old) \ info
    IN  [alerts |-> kept,
         expired |-> {a \in kept :
                         /\ a.status \notin {"expired"}
                         /\ (IF a.timeout = NULL THEN config.ALERT_TIMEOUT
                             ELSE a.timeout) # 0
                         /\ a.timeout # NULL
                         /\ a.last_receive_time + a.timeout < time}]

\* get_unshelve(): the alerts joined with the records of their history
get_unshelve(A, time) ==
    {a \in A : \E i \in DOMAIN a.history :
        LET h == a.history[i]
        IN  /\ a.status = Shelved
            /\ h.type = "shelve"
            /\ h.status = Shelved
            /\ (IF h.timeout = NULL THEN config.SHELVE_TIMEOUT ELSE h.timeout) # 0
            /\ h.timeout # NULL
            /\ a.update_time + h.timeout < time}

\* get_unack()
get_unack(A, time) ==
    {a \in A : \E i \in DOMAIN a.history :
        LET h == a.history[i]
        IN  /\ a.status = Ack
            /\ h.type = "ack"
            /\ h.status = Ack
            /\ (IF h.timeout = NULL THEN config.ACK_TIMEOUT ELSE h.timeout) # 0
            /\ h.timeout # NULL
            /\ a.update_time + h.timeout < time}

(***************************************************************************)
(* SpecHousekeeping: one of the three queries on a table of one alert or   *)
(* two                                                                     *)
(***************************************************************************)
\* a call of get_expired, thresholds set or not, on an alert of any
\* status, with a timeout, none (0) or NULL, perhaps next to a second, open
\* alert; or a call of get_unshelve or get_unack on an alert shelved, acked
\* or open whose history, newest first, holds up to HISTORY_LIMIT records
\* of shelve, ack and unshelve actions, each with its timeout
InitHousekeeping ==
    /\ nextId = 1
    /\ resp = Response(None, 0, None)
    /\ budget = 0
    /\ sm = NoCall
    /\ smOut = Pending
    /\ pc = <<>>
    /\ seen = <<>>
    /\ ret = NotReturned
    /\ rules = {}
    /\ escalation_rules = {}
    /\ delayed = {}
    /\ handed = {}
    /\ blackouts = {}
    /\ notification_history = {}
    /\ sends = {}
    /\ notification_channels = {}
    /\ tokens = {}
    /\ now \in 0..(MaxTime + 1)
    /\ \E timeout \in {0, 1} :
           config = [CUSTOMER_VIEWS |-> FALSE, ALERT_TIMEOUT |-> timeout,
                     SHELVE_TIMEOUT |-> timeout, ACK_TIMEOUT |-> timeout]
    /\ \/ /\ \E expired_threshold, info_threshold \in {0, 1} :
                 call = [op |-> "get_expired",
                         expired_threshold |-> expired_threshold,
                         info_threshold |-> info_threshold]
          /\ \E a \in [id : {1}, status : {Open, Closed, Shelved, "expired"},
                       severity : {"minor", "informational"},
                       last_receive_time : {0, 1}, update_time : {1},
                       timeout : {NULL, 0, 1}, history : {<<>>}],
                others \in SUBSET {[id |-> 2, status |-> Open,
                                    severity |-> "minor",
                                    last_receive_time |-> 0,
                                    update_time |-> 0, timeout |-> 1,
                                    history |-> <<>>]} :
                 alerts = {a} \cup others
       \/ /\ call \in {[op |-> "get_unshelve"], [op |-> "get_unack"]}
          /\ \E a \in [id : {1}, status : {Open, Ack, Shelved},
                       severity : {"minor"},
                       last_receive_time : {0}, update_time : {0, 1},
                       timeout : {0},
                       history : UNION {[1..n ->
                           [type : {"shelve"}, status : {Shelved},
                            timeout : {NULL, 0, 1, 2}]
                           \cup [type : {"ack"}, status : {Ack},
                                 timeout : {NULL, 0, 1, 2}]
                           \cup [type : {"unshelve"}, status : {Open},
                                 timeout : {NULL}]]
                           : n \in 0..HISTORY_LIMIT}] :
                 alerts = {a}

CallGetExpired ==
    /\ ret = NotReturned
    /\ call.op = "get_expired"
    /\ LET result == get_expired(alerts, call.expired_threshold,
                                 call.info_threshold, now)
       IN  /\ alerts' = result.alerts
           /\ ret' = Return(result.expired)
    /\ UNCHANGED <<nextId, resp, budget, sm, smOut, pc, seen, call, rules,
                   idle, delayed, handed, now>>

CallGetUnshelve ==
    /\ ret = NotReturned
    /\ call.op = "get_unshelve"
    /\ ret' = Return(get_unshelve(alerts, now))
    /\ UNCHANGED args

CallGetUnack ==
    /\ ret = NotReturned
    /\ call.op = "get_unack"
    /\ ret' = Return(get_unack(alerts, now))
    /\ UNCHANGED args

SpecHousekeeping ==
    InitHousekeeping /\ [][CallGetExpired \/ CallGetUnshelve \/ CallGetUnack]_vars

(***************************************************************************)
(* models/notification_channel.py.  api_token and api_sid hold what Fernet *)
(* made of the credentials, bearer and bearer_timeout what update_bearer   *)
(* stored.                                                                 *)
(***************************************************************************)
\* absolute_url(path)
absolute_url(path) == <<"http://localhost:8080", path>>

serialize_WithBearer(self) ==
    [id |-> self.id,
     href |-> absolute_url(<<"/notificationchannel/", self.id>>),
     type |-> self.type,
     sender |-> self.sender,
     customer |-> self.customer,
     host |-> self.host,
     platformId |-> self.platform_id,
     platformPartnerId |-> self.platform_partner_id,
     verify |-> self.verify,
     bearer |-> self.bearer]

\* NotificationChannel.serialize
serialize(self) ==
    [id |-> self.id,
     href |-> absolute_url(<<"/notificationchannel/", self.id>>),
     type |-> self.type,
     sender |-> self.sender,
     customer |-> self.customer,
     host |-> self.host,
     platformId |-> self.platform_id,
     platformPartnerId |-> self.platform_partner_id,
     verify |-> self.verify]

\* NotificationChannel.__init__: the channels of SpecSerialize
Channels ==
    [id : 1..MaxRules, type : {"my_link", "twilio_sms"},
     api_token : {"gAAAAA1", "gAAAAA2"}, api_sid : {None, "gAAAAA3"},
     sender : {"alerta", "noc"}, host : {None}, platform_id : {None},
     platform_partner_id : {None}, customer : {None, "c1"}, verify : {None},
     bearer : {"t0"}, bearer_timeout : {MaxTime}]
    \cup
    [id : 1..MaxRules, type : {"my_link", "twilio_sms"},
     api_token : {"gAAAAA1", "gAAAAA2"}, api_sid : {None, "gAAAAA3"},
     sender : {"alerta", "noc"}, host : {None}, platform_id : {None},
     platform_partner_id : {None}, customer : {None, "c1"}, verify : {None},
     bearer : {None}, bearer_timeout : {NULL}]

\* two channels, the first with id 1
InitSerialize ==
    /\ alerts = {}
    /\ nextId = 1
    /\ resp = Response(None, 0, None)
    /\ budget = 0
    /\ sm = NoCall
    /\ smOut = Pending
    /\ pc = <<>>
    /\ seen = <<>>
    /\ ret = NotReturned
    /\ rules = {}
    /\ escalation_rules = {}
    /\ InitConfig
    /\ delayed = {}
    /\ handed = {}
    /\ now = 0
    /\ call \in [op : {"serialize"},
                 channels : {c \in Channels : c.id = 1} \X Channels]

CallSerialize ==
    /\ ret = NotReturned
    /\ call.op = "serialize"
    /\ ret' = Return([i \in 1..2 |-> serialize(call.channels[i])])
    /\ UNCHANGED args

SpecSerialize == InitSerialize /\ [][CallSerialize]_vars

(***************************************************************************)
(* views/notification_rules.py: GET /notificationrules/reactivate.  The    *)
(* rules of SpecReactivate are BaseRule but for id, active and reactivate; *)
(* a PUT may switch a rule off until a time.                               *)
(***************************************************************************)
\* reactivate_notification_rules: find_all_reactivate() at utcnow(), then
\* update(active=True, reactivate=None) for every rule found
ReactivateNotificationRules ==
    /\ budget > 0
    /\ budget' = budget - 1
    /\ LET notification_rules == get_notification_rules_reactivate(rules, now)
           Updated[S \in SUBSET notification_rules] ==
               IF S = {} THEN rules
               ELSE LET rule == CHOOSE r \in S : TRUE
                    IN  update_notification_rule(
                            Updated[S \ {rule}], rule.id,
                            [x \in {"active", "reactivate"} |->
                                IF x = "active" THEN TRUE ELSE NULL])
       IN  /\ rules' = Updated[notification_rules]
           /\ ret' = Return(notification_rules)
    /\ call' = Hook("reactivate", None, None)
    /\ resp' = Response("reactivate", 200, "ok")
    /\ UNCHANGED <<alerts, nextId, sm, smOut, pc, seen, idle, delayed,
                   handed, now>>

InitReactivate ==
    /\ alerts = {}
    /\ nextId = 1
    /\ resp = Response(None, 0, None)
    /\ budget = MaxScans
    /\ sm = NoCall
    /\ smOut = Pending
    /\ pc = <<>>
    /\ seen = <<>>
    /\ call = [op |-> None]
    /\ ret = NotReturned
    /\ escalation_rules = {}
    /\ InitConfig
    /\ delayed = {}
    /\ handed = {}
    /\ now \in 0..MaxTime
    /\ \E n \in 1..MaxRules :
       \E f \in [1..n -> [active : BOOLEAN, reactivate : {NULL} \cup 0..MaxTime]] :
           rules = {[BaseRule EXCEPT !.id = i, !.active = f[i].active,
                                     !.reactivate = f[i].reactivate]
                    : i \in 1..n}

NextReactivate ==
    \/ ReactivateNotificationRules
    \/ \E id \in 1..MaxRules, t \in 0..MaxTime :
           UpdateNotificationRule(id, [x \in {"active", "reactivate"} |->
                                          IF x = "active" THEN FALSE ELSE t])
    \/ Tick

SpecReactivate == InitReactivate /\ [][NextReactivate]_vars

(***************************************************************************)
(* plugins/notification_rule.py: handle_alert builds the list of           *)
(* notifications and starts the thread that runs handle_notifications.     *)
(* seen is that list, an entry per rule without delay: the rule, the type  *)
(* of its channel (None when the channel is gone) and its receivers, never *)
(* none.  pc is where the thread is.  A call of a transport ends in one of *)
(* four ways: "ok", a response that reports a failure ("status"), the      *)
(* credentials of the channel fail to decrypt ("InvalidToken"), or the     *)
(* transport raises, as requests and smtplib do when the host cannot be    *)
(* reached ("Exception").                                                  *)
(***************************************************************************)
\* log_notification: the row it creates
log_notification(sent, rule, receivers, error) ==
    [sent |-> sent, rule |-> rule, receiver |-> receivers, error |-> error]

\* the ways a call of the transport of a channel can end: send_smtp_mail
\* returns no response, send_mylink_sms decrypts nothing
Outcomes(type) ==
    CASE type = "smtp" -> {"ok", "InvalidToken", "Exception"}
      [] type = "my_link" -> {"ok", "status", "Exception"}
      [] OTHER -> {"ok", "status", "InvalidToken", "Exception"}

\* handle_channel from the call of the transport on: the rows it writes
\* and whether an exception leaves it.  For a twilio channel, one pass of
\* the loop over the numbers.
handle_channel(type, rule, receivers, outcome) ==
    LET Logged(sent, error) ==
            [rows |-> {log_notification(sent, rule, receivers, error)},
             raised |-> FALSE]
        Each(sent, error) ==
            [rows |-> {log_notification(sent, rule, {r}, error) : r \in receivers},
             raised |-> FALSE]
        Raised == [rows |-> {}, raised |-> TRUE]
    IN  CASE type = "sendgrid" ->
                 (CASE outcome = "ok" -> Logged(TRUE, None)
                   [] outcome = "status" -> Logged(FALSE, "Got status code")
                   [] outcome = "InvalidToken" -> Logged(FALSE, "Failed to decrypt")
                   [] outcome = "Exception" -> Raised)
          [] type = "smtp" ->
                 (CASE outcome = "ok" -> Logged(TRUE, None)
                   [] outcome = "InvalidToken" -> Logged(FALSE, "Failed to decrypt")
                   [] outcome = "Exception" -> Logged(FALSE, "str(err)"))
          [] type \in {"twilio_sms", "twilio_call"} ->
                 (CASE outcome = "ok" -> Logged(TRUE, None)
                   [] outcome = "status" -> Logged(FALSE, "Got status code")
                   [] outcome = "InvalidToken" -> Logged(FALSE, "Failed to decrypt")
                   [] outcome = "Exception" -> Raised)
          [] type = "link_mobility_xml" ->
                 \* line 258 reads number, which this branch never binds
                 (CASE outcome = "ok" -> Raised
                   [] outcome = "status" -> Logged(FALSE, "FAIL")
                   [] outcome = "InvalidToken" -> Logged(FALSE, "Failed to decrypt")
                   [] outcome = "Exception" -> Raised)
          [] type = "my_link" ->
                 (CASE outcome = "ok" -> Each(TRUE, None)
                   [] outcome = "status" -> Each(FALSE, "response.content")
                   [] outcome = "Exception" -> Raised)

\* timedelta(0, 600) of update_bearer, the clock counting five minutes
REFRESH_MARGIN == 2

\* data['expires_in'] of the token endpoint
ExpiresIn == REFRESH_MARGIN + 1

\* update_notification_channel with bearer and bearer_timeout in kwargs:
\* one UPDATE of the row
update_notification_channel(T, id, kwargs) ==
    {IF r.id = id
     THEN [r EXCEPT !.bearer = kwargs.bearer,
                    !.bearer_timeout = kwargs.bearer_timeout]
     ELSE r : r \in T}

update_bearer_Reached(T, channel, time, outcome) ==
    IF /\ channel.type = "my_link"
       /\ \/ channel.bearer = None
          \/ channel.bearer_timeout <= time + REFRESH_MARGIN
    THEN [requested |-> TRUE,
          raised |-> outcome \in {"InvalidToken", "Exception"},
          table |-> IF outcome = "200"
                    THEN update_notification_channel(T, channel.id,
                             [bearer |-> "t1", bearer_timeout |-> time + ExpiresIn])
                    ELSE T]
    ELSE [requested |-> FALSE, raised |-> FALSE, table |-> T]

\* update_bearer: whether it calls mylink_bearer_request, the table it
\* leaves and whether an exception leaves it, for the way the call ends:
\* status 200, another status, None returned after InvalidToken (and
\* response.status_code raises), or requests.post raises
update_bearer(T, channel, time, outcome) ==
    IF /\ channel.type = "my_link"
       /\ \/ channel.bearer = None
          \/ channel.bearer_timeout < time + REFRESH_MARGIN
    THEN [requested |-> TRUE,
          raised |-> outcome \in {"InvalidToken", "Exception"},
          table |-> IF outcome = "200"
                    THEN update_notification_channel(T, channel.id,
                             [bearer |-> "t1", bearer_timeout |-> time + ExpiresIn])
                    ELSE T]
    ELSE [requested |-> FALSE, raised |-> FALSE, table |-> T]

\* the bearer of a channel: never set, or set by an earlier refresh
Bearers ==
    {[bearer |-> None, bearer_timeout |-> NULL]}
    \cup [bearer : {"t0"},
          bearer_timeout : (REFRESH_MARGIN - 1)..(REFRESH_MARGIN + 1)]

\* a list of up to MaxRules notifications, the rule of entry i being i and
\* its channel, when it has one, the row with id i
InitDispatch ==
    /\ alerts = {}
    /\ nextId = 1
    /\ resp = Response(None, 0, None)
    /\ budget = 0
    /\ sm = NoCall
    /\ smOut = Pending
    /\ call = [op |-> None]
    /\ ret = NotReturned
    /\ rules = {}
    /\ escalation_rules = {}
    /\ blackouts = {}
    /\ config = [CUSTOMER_VIEWS |-> FALSE]
    /\ notification_history = {}
    /\ sends = {}
    /\ tokens = {}
    /\ delayed = {}
    /\ handed = {}
    /\ now = 0
    /\ pc = [at |-> "handle_alert", i |-> 1]
    /\ seen \in UNION {[1..n -> [channel : {"sendgrid", "smtp", "twilio_sms",
                                            "twilio_call", "link_mobility_xml",
                                            "my_link", None},
                                 receivers : {{"r1"}, {"r1", "r2"}}]]
                       : n \in 1..MaxRules}
    /\ \E b \in [DOMAIN seen -> Bearers] :
          /\ \A i \in DOMAIN seen :
                 seen[i].channel # "my_link" => b[i].bearer = None
          /\ notification_channels =
                 {[id |-> i, type |-> seen[i].channel, bearer |-> b[i].bearer,
                   bearer_timeout |-> b[i].bearer_timeout]
                  : i \in {j \in DOMAIN seen : seen[j].channel # None}}

\* handle_alert, lines 317-322: one pass of the loop over the rules, in the
\* request that ingests the alert.  update_bearer(rule.channel, fernet)
\* reads channel.type and raises for a rule whose channel is gone; what it
\* raises leaves handle_alert before the thread is started.
UpdateBearer ==
    /\ pc.at = "handle_alert"
    /\ LET n == seen[pc.i]
           next == IF pc.i = Len(seen) THEN [at |-> "Thread", i |-> pc.i]
                   ELSE [at |-> "handle_alert", i |-> pc.i + 1]
       IN  IF n.channel = None
           THEN /\ pc' = [at |-> "raised", i |-> 0]
                /\ UNCHANGED <<notification_channels, tokens>>
           ELSE \E outcome \in {"200", "status", "InvalidToken", "Exception"} :
                LET channel == CHOOSE c \in notification_channels : c.id = pc.i
                    result == update_bearer(notification_channels, channel,
                                            now, outcome)
                IN  /\ notification_channels' = result.table
                    /\ tokens' = IF result.requested
                                 THEN tokens \cup {[channel |-> channel.id,
                                                    outcome |-> outcome]}
                                 ELSE tokens
                    /\ pc' = IF result.raised THEN [at |-> "raised", i |-> 0]
                             ELSE next
    /\ UNCHANGED <<alerts, nextId, resp, budget, sm, smOut, seen, call, ret,
                   rules, escalation_rules, blackouts, config, delayed,
                   handed, now, notification_history, sends>>

\* handle_alert, line 326: the thread is started and the request goes on
StartThread ==
    /\ pc.at = "Thread"
    /\ pc' = [at |-> "for", i |-> 1]
    /\ UNCHANGED <<alerts, nextId, resp, budget, sm, smOut, seen, notif>>

\* handle_notifications: one call of a transport for the entry the loop is
\* at, by handle_channel.  A twilio channel is called once for every
\* number, any other channel once for all receivers.
HandleNotifications ==
    /\ pc.at = "for"
    /\ LET n == seen[pc.i]
           next == IF pc.i = Len(seen) THEN [at |-> "done", i |-> pc.i]
                   ELSE [at |-> "for", i |-> pc.i + 1]
           left == n.receivers \ UNION {s.receivers : s \in {x \in sends : x.rule = pc.i}}
       IN  IF n.channel = None
           THEN /\ pc' = [at |-> "done", i |-> pc.i]
                /\ UNCHANGED <<notification_history, sends>>
           ELSE \E outcome \in Outcomes(n.channel),
                   receivers \in IF n.channel \in {"twilio_sms", "twilio_call"}
                                 THEN {{number} : number \in left}
                                 ELSE {n.receivers} :
                LET result == handle_channel(n.channel, pc.i, receivers, outcome)
                IN  /\ sends' = sends \cup {[rule |-> pc.i, receivers |-> receivers,
                                             outcome |-> outcome]}
                    /\ notification_history' = notification_history \cup result.rows
                    /\ pc' = IF result.raised THEN [at |-> "raised", i |-> pc.i]
                             ELSE IF left \subseteq receivers THEN next
                             ELSE pc
    /\ UNCHANGED <<alerts, nextId, resp, budget, sm, smOut, seen, call, ret,
                   rules, escalation_rules, blackouts, config, delayed,
                   handed, now, notification_channels, tokens>>

SpecDispatch ==
    InitDispatch /\ [][UpdateBearer \/ StartThread \/ HandleNotifications]_vars

(***************************************************************************)
(* database/backends/postgres/base.py: BLACKOUTS                           *)
(* A row of blackouts has the scalars resource, event, group, origin and   *)
(* customer, NULL (None) when not given, and the arrays service and tags,  *)
(* '{}' when not given.  The attributes of an alert are never NULL.        *)
(***************************************************************************)
BlackoutAttributes == {"resource", "service", "event", "group", "tags", "origin"}

\* Alternatives without the ones in which resource IS NULL
Alternatives_ResourceGiven ==
    {alternative \in [BlackoutAttributes -> {"wild", "match"}] :
        alternative["resource"] = "match"}

\* lines 842-905: the 64 alternatives joined by OR, every choice of a form
\* for each of the six attributes
Alternatives == [BlackoutAttributes -> {"wild", "match"}]

\* lines 839-906: the WHERE of the query.  An alternative gives an
\* attribute in one of two forms: resource IS NULL or resource=%(resource)s,
\* service='{}' or service <@ %(service)s
BlackoutWhere(r, alert) ==
    LET WildWhere(attribute) ==
            IF attribute \in {"service", "tags"} THEN r[attribute] = {}
            ELSE r[attribute] = None
        MatchWhere(attribute) ==
            IF attribute \in {"service", "tags"}
            THEN r[attribute] \subseteq alert[attribute]
            ELSE r[attribute] = alert[attribute]
    IN  /\ r.start_time <= alert.create_time
        /\ r.end_time > alert.create_time
        /\ r.environment = alert.environment
        /\ \E alternative \in Alternatives :
               \A attribute \in BlackoutAttributes :
                   IF alternative[attribute] = "wild" THEN WildWhere(attribute)
                   ELSE MatchWhere(attribute)

\* is_blackout_period(alert): line 908, customer IS NULL OR
\* customer=%(customer)s, which no row satisfies by equality when the
\* customer of the alert is NULL, is added to the query when CUSTOMER_VIEWS
\* is set
is_blackout_period(B, alert) ==
    LET CustomerWhere_(r) ==
            \/ r.customer = None
            \/ alert.customer # None /\ r.customer = alert.customer
    IN  {r \in B : /\ BlackoutWhere(r, alert)
                   /\ config.CUSTOMER_VIEWS => CustomerWhere_(r)} # {}

(***************************************************************************)
(* SpecBlackout: is_blackout_period on a table of one or two blackouts     *)
(***************************************************************************)
\* a call for an alert with a customer or none, at create_time 1; a blackout
\* with each attribute not given, as in the alert or more than or other than
\* in the alert, with a period around, from, up to or after that time;
\* perhaps a second blackout, the one of scenario S4 (an environment, a
\* period, nothing else) in another environment; CUSTOMER_VIEWS set or not
InitBlackout ==
    /\ alerts = {}
    /\ nextId = 1
    /\ resp = Response(None, 0, None)
    /\ budget = 0
    /\ sm = NoCall
    /\ smOut = Pending
    /\ pc = <<>>
    /\ seen = <<>>
    /\ ret = NotReturned
    /\ rules = {}
    /\ escalation_rules = {}
    /\ delayed = {}
    /\ handed = {}
    /\ now = 0
    /\ notification_history = {}
    /\ sends = {}
    /\ notification_channels = {}
    /\ tokens = {}
    /\ \E customer \in {None, "c1", "c2"} :
           call = [op |-> "is_blackout_period",
                   alert |-> [environment |-> "Production",
                              customer |-> customer, resource |-> "n1",
                              service |-> {"s1"}, event |-> "down",
                              group |-> "g1", tags |-> {"t1"},
                              origin |-> "o1", create_time |-> 1]]
    /\ \E CUSTOMER_VIEWS \in BOOLEAN,
          others \in SUBSET {[id |-> 2, environment |-> "Development",
                               customer |-> None, resource |-> None,
                               service |-> {}, event |-> None,
                               group |-> None, tags |-> {}, origin |-> None,
                               start_time |-> 0, end_time |-> 2]},
          r \in [id : {1}, environment : {"Production", "Development"},
                 customer : {None, "c1"},
                 resource : {None, "n1", "n2"},
                 service : {{}, {"s1"}, {"s1", "s2"}},
                 event : {None, "down", "up"},
                 group : {None, "g1", "g2"},
                 tags : {{}, {"t1"}, {"t1", "t2"}},
                 origin : {None, "o1", "o2"},
                 start_time : {0, 1, 2}, end_time : {1, 2, 3}] :
        /\ r.end_time = r.start_time + 1 \/ r.end_time = r.start_time + 2
        /\ blackouts = {r} \cup others
        /\ config = [CUSTOMER_VIEWS |-> CUSTOMER_VIEWS]

CallIsBlackoutPeriod ==
    /\ call.op = "is_blackout_period"
    /\ ~ret.done
    /\ ret' = Return(is_blackout_period(blackouts, call.alert))
    /\ UNCHANGED args

SpecBlackout == InitBlackout /\ [][CallIsBlackoutPeriod]_vars

(***************************************************************************)
(* Claims on the alert store                                               *)
(***************************************************************************)
\* the row of table T with this id
Row(T, id) == CHOOSE r \in T : r.id = id

\* the alert object the lookup of an ingest of i is run with
Lookup(i) == Alert(i, nextId)

\* C2 as stated: for every reachable store and incoming alert the lookup
\* gives exactly one of duplicate, correlate, create, because is_duplicate
\* and is_correlated never both find a row.
C2_NeverBothFind ==
    \A i \in Incoming :
        ~ (is_duplicate(alerts, Lookup(i)) # {} /\ is_correlated(alerts, Lookup(i)) # {})

\* the ingests a step to a store with these rows can be: every outcome
\* leaves a row with the incoming event and severity
Leaves(i, T) == \E r \in T : r.event = i.event /\ r.severity = i.severity

\* C2 amended: an ingest is a duplicate when is_duplicate finds a row, a
\* correlate when is_duplicate finds none and is_correlated finds a row, a
\* create when neither finds a row; the two queries never select the same
\* row, but they may both find a row, and the ingest is then a duplicate.
C2_ClassifiedByPriority ==
    [][\A i \in Incoming :
        (resp'.op = "receive" /\ Leaves(i, alerts') /\ Receive(i)) =>
            /\ is_duplicate(alerts, Lookup(i)) \cap is_correlated(alerts, Lookup(i)) = {}
            /\ resp'.outcome =
                IF is_duplicate(alerts, Lookup(i)) # {} THEN "duplicate"
                ELSE IF is_correlated(alerts, Lookup(i)) # {} THEN "correlate"
                ELSE "create"]_vars

\* an ingest was taken as a duplicate of one row while is_correlated finds
\* another row for it
C2_Witness ==
    /\ resp.outcome = "duplicate"
    /\ \E i \in Incoming :
        /\ \E r \in is_duplicate(alerts, Lookup(i)) : r.duplicate_count > 0
        /\ is_correlated(alerts, Lookup(i)) # {}

\* C3: a duplicate ingest increases duplicate_count by exactly 1, sets
\* repeat, leaves event and severity unchanged and leaves the history length
\* unchanged unless the status changed; the same new alert ingested twice
\* leaves one row with duplicate_count 1, repeat true and one history record.
C3_DuplicateIngest ==
    [][\A i \in Incoming :
        (Receive(i) /\ is_duplicate(alerts, Lookup(i)) # {}) =>
            /\ \A r \in is_duplicate(alerts, Lookup(i)) :
                \E r2 \in alerts' :
                    /\ r2.id = r.id
                    /\ r2.duplicate_count = r.duplicate_count + 1
                    /\ r2.repeat = TRUE
                    /\ r2.event = r.event /\ r2.severity = r.severity
                    /\ r2.status = r.status => Len(r2.history) = Len(r.history)
            /\ (\E r \in alerts : alerts = {r} /\ r.duplicate_count = 0
                                  /\ Len(r.history) = 1) =>
                    \E r2 \in alerts' :
                        /\ alerts' = {r2} /\ r2.duplicate_count = 1
                        /\ r2.repeat = TRUE /\ Len(r2.history) = 1]_vars

\* C4: after a correlate ingest the stored alert's previous_severity is the
\* severity it had immediately before, its severity and event are the
\* incoming ones and its trend_indication agrees with the SEVERITY_MAP order
\* of (previous_severity, severity).
C4_CorrelateIngest ==
    [][\A i \in Incoming :
        (Receive(i) /\ is_duplicate(alerts, Lookup(i)) = {}) =>
            \A r \in is_correlated(alerts, Lookup(i)) :
                \E r2 \in alerts' :
                    /\ r2.id = r.id
                    /\ r2.previous_severity = r.severity
                    /\ r2.severity = i.severity /\ r2.event = i.event
                    /\ r2.trend_indication =
                        IF SEVERITY_MAP[r.severity] < SEVERITY_MAP[i.severity]
                        THEN "moreSevere"
                        ELSE IF SEVERITY_MAP[r.severity] > SEVERITY_MAP[i.severity]
                        THEN "lessSevere" ELSE "noChange"]_vars

\* C5: after every write of an alert's history the history holds at most
\* HISTORY_LIMIT records, the record just written is first (it carries the
\* alert's event, severity and status as written), and the older records
\* follow in their former order, the oldest being the ones dropped.
C5_HistoryRing ==
    [][\A r2 \in alerts' :
        /\ Len(r2.history) <= HISTORY_LIMIT
        /\ \A r \in alerts :
            (r.id = r2.id /\ r2.history # r.history) =>
                /\ r2.history[1].event = r2.event
                /\ r2.history[1].severity = r2.severity
                /\ r2.history[1].status = r2.status
                /\ Len(r2.history) =
                    (IF Len(r.history) < HISTORY_LIMIT THEN Len(r.history) + 1
                     ELSE HISTORY_LIMIT)
                /\ \A k \in 2..Len(r2.history) : r2.history[k] = r.history[k - 1]]_vars

\* a full history whose oldest record, the one of type new, was dropped
C5_Witness ==
    \E r \in alerts :
        /\ Len(r.history) = HISTORY_LIMIT
        /\ \A k \in 1..Len(r.history) : r.history[k].change_type # "new"

\* C8: action open on an alert in state Open fails with InvalidAction,
\* answered 409, and leaves the stored alert as it was; from Closed it
\* yields Unack and from every other state Open.
C8_OperatorOpen ==
    [][\A id \in AlertIds :
        (ActionAlert(id, "open") /\ get_alert(alerts, id) # {}) =>
            IF Row(alerts, id).status = Open
            THEN resp'.code = 409 /\ alerts' = alerts
            ELSE /\ resp'.code = 200
                 /\ Row(alerts', id).severity = Row(alerts, id).severity
                 /\ Row(alerts', id).status =
                        IF Row(alerts, id).status = Closed THEN Unack ELSE Open]_vars

\* action open was refused
C8_Witness ==
    /\ resp = Response("action", 409, "InvalidAction")
    /\ \E r \in alerts : r.status = Open

\* the state the call starts from: current_status, or the default state
CallState == IF sm.current_status = None THEN Closed ELSE sm.current_status

Returned(severity, status) ==
    smOut.raised = None /\ smOut.severity = severity /\ smOut.status = status

\* C6: with no operator action and an incoming alert of default status, a
\* severity other than normal takes Closed and Unack to Open, a normal
\* severity takes Open to Unack and Ack to Closed; so Closed, ingest minor,
\* action ack, ingest normal passes (Open, minor), (Ack, minor) and ends in
\* (Closed, normal).
C6_UnpromptedTransitions ==
    smOut # Pending =>
        /\ (sm.action = None /\ sm.status = Closed) =>
            /\ (CallState \in {Closed, Unack} /\ sm.severity # "normal")
                    => Returned(sm.severity, Open)
            /\ (CallState = Open /\ sm.severity = "normal")
                    => Returned("normal", Unack)
            /\ (CallState = Ack /\ sm.severity = "normal")
                    => Returned("normal", Closed)
        /\ (sm.action = None /\ sm.status = Closed /\ CallState = Closed
                /\ sm.severity = "minor") => Returned("minor", Open)
        /\ (sm.action = "ack" /\ CallState = Open /\ sm.severity = "minor")
                => Returned("minor", Ack)
        /\ (sm.action = None /\ sm.status = Closed /\ CallState = Ack
                /\ sm.severity = "normal") => Returned("normal", Closed)

\* the last step of the sequence of C6 has run: the acknowledged minor alarm
\* received normal
C6_Witness ==
    /\ sm.action = None /\ sm.status = Closed /\ sm.current_status = Ack
    /\ sm.severity = "normal" /\ sm.previous_severity = "minor"
    /\ Returned("normal", Closed)

\* C7: action ack yields Ack from Open and Closed from Unack, action unack
\* yields Open from Ack, and the severity is returned unchanged.
C7_AckUnack ==
    smOut # Pending =>
        /\ (sm.action = "ack" /\ CallState = Open) => Returned(sm.severity, Ack)
        /\ (sm.action = "ack" /\ CallState = Unack) => Returned(sm.severity, Closed)
        /\ (sm.action = "unack" /\ CallState = Ack) => Returned(sm.severity, Open)

C7_Witness ==
    sm.action = "ack" /\ sm.current_status = Unack /\ Returned(sm.severity, Closed)

\* C9: from every state action shelve yields Shelved with the severity
\* unchanged, and action unshelve yields Closed if the severity is normal
\* and Open otherwise.
C9_ShelveUnshelve ==
    smOut # Pending =>
        /\ sm.action = "shelve" => Returned(sm.severity, Shelved)
        /\ sm.action = "unshelve" =>
            Returned(sm.severity, IF sm.severity = "normal" THEN Closed ELSE Open)

C9_Witness ==
    /\ sm.action = "unshelve" /\ sm.current_status = Shelved
    /\ sm.severity = "normal" /\ Returned("normal", Closed)

\* C10 as stated: with no operator action, state Ack and a severity other
\* than normal, the result is Open iff the severity trended more severe and
\* a previous severity was recorded, and Ack in every other case.
C10_ReAlarmIffRecorded ==
    (smOut # Pending /\ sm.action = None /\ CallState = Ack
        /\ sm.severity # "normal") =>
        IF /\ sm.previous_severity # None
           /\ trend(sm.previous_severity, sm.severity) = "moreSevere"
        THEN smOut.status = Open
        ELSE smOut.status = Ack

\* C10 amended: with no operator action, an incoming alert of default
\* status, state Ack and a severity other than normal, the result is Open
\* iff the severity trended more severe from a previous severity (normal
\* when none is set) that is not the default previous severity normal, and
\* Ack in every other case.
C10_ReAlarmIffNotDefault ==
    (smOut # Pending /\ sm.action = None /\ sm.status = Closed
        /\ CallState = Ack /\ sm.severity # "normal") =>
        LET previous == IF sm.previous_severity = None THEN "normal"
                        ELSE sm.previous_severity
        IN  IF /\ SEVERITY_MAP[previous] < SEVERITY_MAP[sm.severity]
               /\ previous # "normal"
            THEN Returned(sm.severity, Open)
            ELSE Returned(sm.severity, Ack)

\* an acknowledged alarm whose recorded previous severity is normal got
\* worse and stayed acknowledged
C10_Witness ==
    /\ sm.action = None /\ sm.status = Closed /\ sm.current_status = Ack
    /\ sm.previous_severity = "normal" /\ sm.severity = "minor"
    /\ Returned("minor", Ack)

(***************************************************************************)
(* Claims on the trend of two severities                                   *)
(***************************************************************************)
\* C11: for all severities p and c of SEVERITY_MAP, trend(p, c) is
\* moreSevere iff rank(c) > rank(p), lessSevere iff rank(c) < rank(p) and
\* noChange iff the ranks are equal; and trend(p, c) is moreSevere iff
\* trend(c, p) is lessSevere.
C11_TrendByRank ==
    (call.op = "trend" /\ ret.done) =>
        LET p == call.previous
            c == call.current
        IN  /\ ret.value = MORE_SEVERE <=> SEVERITY_MAP[c] > SEVERITY_MAP[p]
            /\ ret.value = LESS_SEVERE <=> SEVERITY_MAP[c] < SEVERITY_MAP[p]
            /\ ret.value = NO_CHANGE <=> SEVERITY_MAP[c] = SEVERITY_MAP[p]
            /\ ret.value = MORE_SEVERE <=> trend(c, p) = LESS_SEVERE

\* trend has returned moreSevere for two severities
C11_Witness ==
    /\ call.op = "trend"
    /\ ret.done
    /\ ret.value = MORE_SEVERE
    /\ call.previous = "normal"
    /\ call.current = "major"

(***************************************************************************)
(* Claims on the selection of notification rules.  The gates are written   *)
(* as the claims state them, on a rule r, an alert a and a tag set T.      *)
(***************************************************************************)
Entries(array) == {array[i] : i \in DOMAIN array}

Selected(r) == \E x \in ret.value : x.rule.id = r.id

IsSelection == call.op \in {"active", "active_status"} /\ ret.done

PassesTriggers(r, a, status) ==
    \E trigger \in Entries(r.triggers) :
        /\ trigger.from_severity = {} \/ a.previous_severity \in trigger.from_severity
        /\ trigger.to_severity = {} \/ a.severity \in trigger.to_severity
        /\ IF status # None
           THEN status \in trigger.status
           ELSE trigger.status = {} \/ a.status \in trigger.status

PassesInclusion(r, T) ==
    \E t \in Entries(r.tags) :
        t.all \subseteq T /\ (t.any = {} \/ t.any \cap T # {})

Rejected(r, T) ==
    \E e \in Entries(r.excluded_tags) :
        /\ ~(e.all = {} /\ e.any = {})
        /\ \/ e.all = {} /\ e.any \cap T # {}
           \/ e.any = {} /\ e.all \subseteq T
           \/ e.all \subseteq T /\ e.any \cap T # {}

PassesAttributes(r, a) ==
    /\ r.active
    /\ r.environment = a.environment
    /\ r.resource = None \/ r.resource = a.resource
    /\ r.event = None \/ r.event = a.event
    /\ r.group = None \/ r.group = a.group
    /\ r.service = {} \/ r.service \subseteq a.service
    /\ r.days = {} \/ a.day \in r.days
    /\ r.start_time = NULL \/ r.start_time <= a.time
    /\ r.end_time = NULL \/ a.time < r.end_time

\* C13: a rule that passes the other gates is selected iff one of its
\* triggers has from_severity empty or holding the alert's previous
\* severity, to_severity empty or holding the alert's severity, and, when
\* the call gives a status, that status in its status array (an empty array
\* does not match), otherwise its status array empty or holding the alert's
\* status.
C13_TriggerGate ==
    IsSelection =>
        \A r \in rules :
            (/\ PassesAttributes(r, call.alert)
             /\ PassesInclusion(r, call.alert.tags)
             /\ ~Rejected(r, call.alert.tags))
            => (Selected(r) <=> PassesTriggers(r, call.alert, call.status))

\* a call with a status has not selected a rule whose only matching trigger
\* has an empty status array, and the call without a status would have
C13_Witness ==
    /\ call.op = "active_status"
    /\ ret.done
    /\ \E r \in rules :
        /\ ~Selected(r)
        /\ Len(r.triggers) = 2
        /\ PassesTriggers(r, call.alert, None)
        /\ \E trigger \in Entries(r.triggers) : trigger.status # {}

\* C14: a rule that passes the other gates is rejected iff some entry e of
\* its excluded_tags, e.all and e.any not both empty, has (e.all empty and
\* e.any meets T) or (e.any empty and e.all within T) or (e.all within T
\* and e.any meets T), T the tags of the alert.
C14_TagExclusion ==
    IsSelection =>
        \A r \in rules :
            (/\ PassesAttributes(r, call.alert)
             /\ PassesTriggers(r, call.alert, call.status)
             /\ PassesInclusion(r, call.alert.tags))
            => (~Selected(r) <=> Rejected(r, call.alert.tags))

\* an entry of both arrays has rejected the rule, and an entry of the same
\* all array and another any array has not
C14_Witness ==
    /\ IsSelection
    /\ call.alert.tags = {"test", "dev", "any"}
    /\ \E r \in rules :
        /\ ~Selected(r)
        /\ r.excluded_tags = <<[all |-> {"test", "dev"}, any |-> {"any", "all"}]>>
        /\ PassesInclusion(r, call.alert.tags)

\* the rule the two statements of C15 are about: created with an empty tags
\* list and excluded_tags [{all: [test, dev], any: []}]
IsAllOnlyRule(r) ==
    /\ r.tags = <<[all |-> {}, any |-> {}]>>
    /\ r.excluded_tags = <<[all |-> {"test", "dev"}, any |-> {}]>>

\* C15 as stated: the rule is excluded for the alert tagged test, dev, any,
\* all, and selected for the alert tagged exactly test, dev.
C15_AllOnlyIncludesExact ==
    (IsSelection /\ call.status = None) =>
        \A r \in rules :
            IsAllOnlyRule(r) =>
                /\ call.alert.tags = {"test", "dev", "any", "all"} => ~Selected(r)
                /\ call.alert.tags = {"test", "dev"} => Selected(r)

\* C15: the rule is excluded for the alert tagged test, dev, any, all and
\* for the alert tagged exactly test, dev; it is selected for an alert whose
\* tags do not hold both test and dev.
C15_AllOnlyExcludesSuperset ==
    IsSelection =>
        \A r \in rules :
            IsAllOnlyRule(r) =>
                (Selected(r) <=> ~({"test", "dev"} \subseteq call.alert.tags))

\* the selection has returned without the rule for the alert tagged exactly
\* test, dev
C15_Witness ==
    /\ IsSelection
    /\ call.alert.tags = {"test", "dev"}
    /\ \E r \in rules : IsAllOnlyRule(r) /\ ~Selected(r)

C16_WitnessEscalation ==
    /\ call.op = "escalation"
    /\ ret.done
    /\ \E a \in alerts :
        /\ a \notin ret.value
        /\ a \in escalation_alert_triggers(alerts, escalation_rules, call.time)
        /\ \A e \in escalation_rules : ~Rejected(e, a.tags)

\* C18: a notification rule is selected for an alert only if it is active,
\* its environment is the alert's, each of its resource, event and group is
\* null or the alert's, its service list is empty or within the alert's,
\* its days list is empty or holds the weekday, and start_time <= time <
\* end_time for each bound that is set.
C18_AttributeGate ==
    IsSelection =>
        \A r \in rules : Selected(r) => PassesAttributes(r, call.alert)

\* a rule with every optional column set is selected at its start_time
C18_Witness ==
    /\ IsSelection
    /\ \E r \in rules :
        /\ Selected(r)
        /\ r.resource # None /\ r.event # None /\ r.group # None
        /\ r.service # {} /\ r.days # {}
        /\ r.start_time = call.alert.time
        /\ r.end_time # NULL

(***************************************************************************)
(* Claims on the notification_rule plugin                                  *)
(***************************************************************************)
\* every gate of the selection, as the claims state them
Matches(r, a, status) ==
    /\ PassesAttributes(r, a)
    /\ PassesTriggers(r, a, status)
    /\ PassesInclusion(r, a.tags)
    /\ ~Rejected(r, a.tags)

\* the state is that of the end of an ingest
AfterReceive(outcome) ==
    call.op = "post_receive" /\ resp.op = "receive" /\ resp.outcome = outcome

HandleAlertDone ==
    /\ ret.done
    /\ \/ call.op = "post_receive" /\ resp.op = "receive"
       \/ call.op = "status_change" /\ resp.op = "status" /\ resp.code = 200

C20_FireOnlyDue ==
    call.op = "fire" =>
        /\ \A h \in handed :
               /\ h.delay.delay_time < call.time
               /\ \A r \in rules :
                      (r.id = h.rule_id /\ r.delay_time # NULL)
                      => h.delay.created + r.delay_time <= call.time
        /\ ret.done => \A n \in ret.value : \A d \in delayed : d.id # n.id

\* a sweep has returned a row and left a row that is not due
C20_Witness ==
    /\ call.op = "fire"
    /\ ret.done
    /\ ret.value # {}
    /\ \E d \in delayed : d.delay_time >= call.time

\* a list of tags as a rule holds it when none was given: no entry, or the
\* entry of two empty arrays NotificationRule.__init__ puts for none
IsEmptyList(array) == array = <<>> \/ array = <<[all |-> {}, any |-> {}]>>

\* C17: a rule whose tags list is empty passes tag inclusion for every
\* alert, and a rule whose excluded_tags list is empty is never rejected by
\* exclusion, whether the list was empty at the creation of the rule or set
\* to empty by an update: such a rule is selected when its other gates pass.
C17_EmptyListsPass ==
    HandleAlertDone =>
        \A r \in rules :
            /\ (/\ IsEmptyList(r.tags)
                /\ PassesAttributes(r, call.alert)
                /\ PassesTriggers(r, call.alert, call.status)
                /\ ~Rejected(r, call.alert.tags))
               => Selected(r)
            /\ (/\ IsEmptyList(r.excluded_tags)
                /\ PassesAttributes(r, call.alert)
                /\ PassesTriggers(r, call.alert, call.status)
                /\ PassesInclusion(r, call.alert.tags))
               => Selected(r)

(***************************************************************************)
(* Claims on the delayed notifications                                     *)
(***************************************************************************)
\* the step of PUT /alert/<id>/status that ran the plugin
StatusChanged ==
    /\ budget' # budget
    /\ resp'.op = "status"
    /\ resp'.code = 200
    /\ call'.op = "status_change"

\* C21: a status change of an alert leaves in the table no delayed row of
\* that alert that was there before it (the rows of the alert it leaves are
\* the ones it inserted itself, after the delete), and it leaves the rows of
\* every other alert as they were.
C21_StatusChangePurges ==
    [][StatusChanged =>
          /\ \A d \in delayed' : d.alert_id = call'.alert.id => d \notin delayed
          /\ {d \in delayed' : d.alert_id # call'.alert.id}
                 = {d \in delayed : d.alert_id # call'.alert.id}]_vars

\* a status change has inserted a row for its alert, next to an older row
\* of another alert
C21_Witness ==
    /\ call.op = "status_change"
    /\ resp.op = "status"
    /\ resp.code = 200
    /\ \E d \in delayed : d.alert_id = call.alert.id /\ d.id[1] = budget + 1
    /\ \E d \in delayed : d.alert_id # call.alert.id /\ d.id[1] > budget + 1

\* C22: of two sweeps served in parallel, no delayed notification is handed
\* to the dispatch by both.
C22_DispatchedOnce ==
    \A h1, h2 \in handed : h1.delay.id = h2.delay.id => h1.by = h2.by

\* C23: the table of delayed notifications never holds two rows of the same
\* alert and the same notification rule.
C23_OnePendingPerPair ==
    \A d1, d2 \in delayed :
        (d1.alert_id = d2.alert_id
         /\ d1.notification_rule_id = d2.notification_rule_id) => d1.id = d2.id

(***************************************************************************)
(* Claims on the blackouts                                                 *)
(***************************************************************************)
\* each of the six attributes of the row is not given, or agrees with the
\* alert, and the period of the row holds the create_time of the alert
AttributesAgree(r, a) ==
    /\ r.start_time <= a.create_time
    /\ a.create_time < r.end_time
    /\ r.environment = a.environment
    /\ r.resource = None \/ r.resource = a.resource
    /\ r.service = {} \/ r.service \subseteq a.service
    /\ r.event = None \/ r.event = a.event
    /\ r.group = None \/ r.group = a.group
    /\ r.tags = {} \/ r.tags \subseteq a.tags
    /\ r.origin = None \/ r.origin = a.origin

CustomerAgrees(r, a) == r.customer = None \/ r.customer = a.customer

IsBlackoutCall == call.op = "is_blackout_period" /\ ret.done

\* C24 as stated: is_blackout_period is true iff some blackout agrees with
\* the alert on the period, the environment and the six attributes.
C24_BlackoutIffAttributes ==
    IsBlackoutCall =>
        (ret.value <=> \E r \in blackouts : AttributesAgree(r, call.alert))

\* C24 as the code has it: is_blackout_period is true iff some blackout
\* agrees with the alert on the period, the environment and the six
\* attributes and, when CUSTOMER_VIEWS is set, has no customer or the
\* customer of the alert.
C24_BlackoutIffAttributesAndCustomer ==
    IsBlackoutCall =>
        (ret.value <=>
            \E r \in blackouts :
                /\ AttributesAgree(r, call.alert)
                /\ config.CUSTOMER_VIEWS => CustomerAgrees(r, call.alert))

\* with CUSTOMER_VIEWS set, a blackout of the customer of the alert that
\* gives some attributes and not others holds the alert
C24_Witness ==
    /\ IsBlackoutCall
    /\ ret.value
    /\ config.CUSTOMER_VIEWS
    /\ call.alert.customer = "c1"
    /\ \E r \in blackouts :
           /\ blackouts = {r}
           /\ r.customer = "c1"
           /\ r.start_time = call.alert.create_time
           /\ r.resource = "n1" /\ r.service = {} /\ r.event = None
           /\ r.group = "g1" /\ r.tags = {"t1"} /\ r.origin = None

\* C25: is_blackout_period is true only if some blackout that agrees with
\* the alert has no customer or the customer of the alert.
C25_BlackoutOfOwnCustomer ==
    (IsBlackoutCall /\ ret.value) =>
        \E r \in blackouts :
            AttributesAgree(r, call.alert) /\ CustomerAgrees(r, call.alert)

(***************************************************************************)
(* Claims on the escalation scan                                           *)
(***************************************************************************)
\* the row of alert a as GET /escalate has left it
Stored(a) == CHOOSE r \in alerts : r.id = a.id

\* rule e holds alert a by its attributes and by some trigger
HoldsAlert(e, a) ==
    /\ e.active
    /\ a.environment = e.environment
    /\ e.resource \in {None, "", a.resource}
    /\ e.service \subseteq a.service
    /\ e.event \in {None, "", a.event}
    /\ e.group \in {None, a.group}
    /\ \E t \in Entries(e.triggers) :
           /\ t.from_severity = {} \/ a.previous_severity \in t.from_severity
           /\ t.to_severity = {} \/ a.severity \in t.to_severity

EffectiveTimeout(a) ==
    IF a.timeout = NULL THEN config.ALERT_TIMEOUT ELSE a.timeout

\* C27: get_expired returns exactly the alerts it has not deleted whose
\* status is not expired, whose effective timeout is not 0 and whose
\* last_receive_time plus timeout is earlier than the clock (which a NULL
\* timeout never is); so no alert of timeout 0 and no expired alert.
C27_ExpiredSelection ==
    (call.op = "get_expired" /\ ret.done) =>
        /\ ret.value \subseteq alerts
        /\ \A a \in alerts :
               a \in ret.value <=>
                   /\ a.status # "expired"
                   /\ EffectiveTimeout(a) # 0
                   /\ a.timeout # NULL
                   /\ a.last_receive_time + a.timeout < now
        /\ \A a \in ret.value : a.timeout # 0 /\ a.status # "expired"

\* of two open alerts received at 0 with timeout 1, get_expired has
\* returned one at clock 2 and has left the other, of timeout 0
C27_Witness ==
    /\ call.op = "get_expired"
    /\ ret.done
    /\ now = 2
    /\ \E a \in ret.value : a.timeout = 1 /\ a.last_receive_time = 0
    /\ \E a \in alerts \ ret.value :
           a.timeout = 0 /\ a.last_receive_time = 0 /\ a.status = Open

\* the newest record of the history (newest first) of the given type
MostRecent(a, type) ==
    LET S == {i \in DOMAIN a.history : a.history[i].type = type}
    IN  IF S = {} THEN <<>>
        ELSE <<a.history[CHOOSE i \in S : \A j \in S : i <= j]>>

\* the timeout of record h is not zero and has run out
TimedOut(a, h, default) ==
    /\ (IF h.timeout = NULL THEN default ELSE h.timeout) # 0
    /\ h.timeout # NULL
    /\ a.update_time + h.timeout < now

\* C28: get_unshelve returns a shelved alert, and get_unack an acked one,
\* iff the timeout of its most recent shelve (ack) record is not zero and
\* has run out, whatever its older records say.
C28_MostRecentRecordDecides ==
    /\ (call.op = "get_unshelve" /\ ret.done) =>
           \A a \in alerts :
               a.status = Shelved =>
                   (a \in ret.value <=>
                       \E h \in Entries(MostRecent(a, "shelve")) :
                           TimedOut(a, h, config.SHELVE_TIMEOUT))
    /\ (call.op = "get_unack" /\ ret.done) =>
           \A a \in alerts :
               a.status = Ack =>
                   (a \in ret.value <=>
                       \E h \in Entries(MostRecent(a, "ack")) :
                           TimedOut(a, h, config.ACK_TIMEOUT))

(***************************************************************************)
(* Claims on the dispatch                                                  *)
(***************************************************************************)
\* C29: when the dispatch has ended, every receiver of every rule whose
\* channel exists has had its send attempt, whatever failed on the way.
C29_FailureIsolated ==
    pc.at \in {"done", "raised"} =>
        \A i \in DOMAIN seen :
            seen[i].channel # None =>
                \A r \in seen[i].receivers :
                    \E s \in sends : s.rule = i /\ r \in s.receivers

\* C30: every call of a transport has left a row of notification_history
\* for each of its receivers, with sent true when the call ended well and
\* with sent false and an error when it did not.
C30_EveryAttemptLogged ==
    \A s \in sends : \A r \in s.receivers :
        \E h \in notification_history :
            /\ h.rule = s.rule
            /\ r \in h.receiver
            /\ h.sent = (s.outcome = "ok")
            /\ ~h.sent => h.error # None

\* C31: while handle_alert runs in the request that ingests the alert no
\* request has gone to the token endpoint, and handle_alert is never left
\* by a failure of the token request.
C31_IngestMakesNoRequest ==
    /\ pc.at \in {"handle_alert", "Thread"} =>
           \A t \in tokens : t.outcome = "InvalidToken"
    /\ pc = [at |-> "raised", i |-> 0] =>
           \A t \in tokens : t.outcome \notin {"InvalidToken", "Exception"}

\* C32: update_bearer calls for a token iff the channel is of type my_link
\* and its bearer is missing or expires in less than the margin; status
\* 200 sets bearer and bearer_timeout of that row together, anything else
\* leaves the table as it was, and so does a call for any other channel.
C32_BearerRefresh ==
    [][pc.at = "handle_alert" /\ seen[pc.i].channel # None =>
          LET c == CHOOSE r \in notification_channels : r.id = pc.i
              requested == tokens' \ tokens
          IN  /\ requested # {} <=>
                     /\ c.type = "my_link"
                     /\ \/ c.bearer = None
                        \/ c.bearer_timeout - now < REFRESH_MARGIN
              /\ \A t \in requested :
                     /\ t.channel = c.id
                     /\ t.outcome = "200" =>
                            notification_channels' =
                                (notification_channels \ {c}) \cup
                                {[c EXCEPT !.bearer = "t1",
                                           !.bearer_timeout = now + ExpiresIn]}
                     /\ t.outcome # "200" =>
                            notification_channels' = notification_channels
              /\ requested = {} => notification_channels' = notification_channels
      ]_vars

\* a my_link channel has its new bearer and its new expiry after status
\* 200, and the thread is about to start
C32_Witness ==
    /\ pc.at = "Thread"
    /\ \E t \in tokens : \E c \in notification_channels :
           /\ t.outcome = "200" /\ t.channel = c.id
           /\ c.bearer = "t1" /\ c.bearer_timeout = now + ExpiresIn

Secrets == {"api_token", "api_sid", "bearer", "bearer_timeout"}

\* C34: the serialisation of a channel has no key for the token, the sid,
\* the bearer or its expiry, and two channels that agree on every field
\* but these serialise to the same output.
C34_SecretsNotSerialized ==
    call.op = "serialize" /\ ret.done =>
        /\ \A i \in 1..2 :
               DOMAIN ret.value[i] \cap
                   (Secrets \cup {"apiToken", "apiSid", "bearerTimeout",
                                  "bearerExpiry", "bearer_expiry"}) = {}
        /\ (\A f \in DOMAIN call.channels[1] \ Secrets :
                call.channels[1][f] = call.channels[2][f])
               => ret.value[1] = ret.value[2]

\* two channels that differ in each of the secrets, and in nothing else,
\* have been serialised
C34_Witness ==
    /\ call.op = "serialize" /\ ret.done
    /\ \A f \in DOMAIN call.channels[1] :
           f \in Secrets <=> call.channels[1][f] # call.channels[2][f]

(***************************************************************************)
(* Claims on the pending delayed notifications                             *)
(***************************************************************************)
\* C35: an ingest classified as duplicate that leaves the status of its
\* alert as it was leaves every delayed notification of that alert in the
\* table.
C35_DuplicateKeepsPending ==
    [][/\ budget' # budget
       /\ resp'.op = "receive" /\ resp'.outcome = "duplicate"
       /\ call'.op = "post_receive"
       /\ \A r \in alerts : \A x \in alerts' :
              r.id = call'.alert.id /\ x.id = r.id => x.status = r.status
       => {d \in delayed : d.alert_id = call'.alert.id} \subseteq delayed'
      ]_vars

(***************************************************************************)
(* Claims on the identity of the stored alerts                             *)
(***************************************************************************)
\* C36: no two rows of alerts have the same environment, resource, event
\* and customer.
C36_IdentityUnique ==
    \A r \in alerts : \A x \in alerts :
        /\ r.environment = x.environment
        /\ r.resource = x.resource
        /\ r.event = x.event
        /\ r.customer = x.customer
        => r.id = x.id

(***************************************************************************)
(* Claims on the rows of a selection                                       *)
(***************************************************************************)
\* C37: a selection of notification rules returns no rule in two rows.
C37_EachRuleOnce ==
    IsSelection =>
        \A x \in ret.value : \A y \in ret.value : x.rule.id = y.rule.id => x = y

(***************************************************************************)
(* Claims on the rule an escalation is owed to                             *)
(***************************************************************************)
\* rule e alone escalates alert a at the time of the scan: it is active,
\* holds the alert, the alert is open and older than its time, its tags
\* include the alert and its excluded_tags do not reject it
EscalatesAlone(e, a) ==
    /\ HoldsAlert(e, a)
    /\ a.status = Open
    /\ call.time - a.last_receive_time > e.time
    /\ PassesInclusion(e, a.tags)
    /\ ~Rejected(e, a.tags)

\* C38: GET /escalate returns an alert only if some one rule escalates it
\* alone, and leaves out no alert that some one rule escalates alone,
\* whatever the tags and excluded_tags of the other rules are.
C38_OneRuleDecides ==
    (call.op = "escalate" /\ ret.done) =>
        /\ \A a \in ret.value :
               \E e \in escalation_rules : EscalatesAlone(e, a)
        /\ \A r \in alerts :
               r.id \notin {a.id : a \in ret.value} =>
                   \A e \in escalation_rules : ~EscalatesAlone(e, r)

(***************************************************************************)
(* Claims on the repeated sweep                                            *)
(***************************************************************************)
\* C39: under repeated sweeps every delayed notification that is due
\* leaves the table in the end.
C39_DueRowsDrain ==
    \A x \in (1..MaxAlerts) \X (1..MaxRules) :
        (\E d \in delayed : d.id = x /\ d.delay_time < now)
            ~> (\A d \in delayed : d.id # x)

(***************************************************************************)
(* Claims on the operator actions without a transition                     *)
(***************************************************************************)
\* C40: action ack in a state that is neither Open nor Unack, and action
\* unack in a state that is not Ack, return the state and the severity of
\* the call.
C40_UndefinedActionNoop ==
    smOut # Pending =>
        /\ (sm.action = "ack" /\ CallState \notin {Open, Unack})
               => Returned(sm.severity, CallState)
        /\ (sm.action = "unack" /\ CallState # Ack)
               => Returned(sm.severity, CallState)

=============================================================================
